---- MODULE Spec2Model ----
(***************************************************************************)
(* Model of the PDF -> accessible HTML pipeline of Exata-Falada.           *)
(*                                                                         *)
(* process_pdf_web (src/processing.py) is modelled as one coordinator      *)
(* thread (variable pc), the upload workers of                             *)
(* upload_to_gemini_file_api (_upload_single_image_task) and the           *)
(* generation workers (generate_html_for_image_task), each with its own    *)
(* position, plus the remote File API store and the cancel event that a    *)
(* front end may set at any moment.                                        *)
(***************************************************************************)
EXTENDS Integers, Sequences, FiniteSets, TLC

(* ------------------------------ bounds -------------------------------- *)

\* Number of pages of the source document.
NPages == 2

\* Largest worker-pool size a caller passes.
MaxWorkers == 2

\* Total number of exceptions the remote API raises during one run.
MaxApiErrors == 1

\* Longest page-range string given to parse_page_ranges on its own.
MaxRangeLen == 4

\* Largest page count given to parse_page_ranges on its own.
MaxParsePages == 3

\* Page articles in the files given to the patcher.
MaxOriginalPages == 3
MaxCorrectionPages == 2

(* ------------------------- program constants -------------------------- *)

MAX_RETRIES_PER_CALL == 3

INITIAL_BACKOFF == 1

MAX_BACKOFF == 4

PHASE_MAX_RETRIES == 1

MODELO_ESCALONAMENTO == "gemini-2.5-flash-preview-05-20"

DEFAULT_GEMINI_MODEL == "gemini-2.0-flash"

FINISH_REASON_MAX_TOKENS == "MAX_TOKENS"

\* Output limit of the escalation model.
LIMITE_TOKENS_ESCALONAMENTO == 65536

\* Value of a GenerationConfig field that is not set.
Unset == -1

(* ------------------------------ values -------------------------------- *)

\* A local image path "<dir>/page_<num:05d>.<ext>" written by pdf_to_images_local.
ImagePath(page_num_0_indexed) ==
    [stem |-> "page", num |-> page_num_0_indexed + 1, ext |-> "png"]

AllPaths == {ImagePath(i) : i \in 0..(NPages - 1)}

\* mimetypes.guess_type(image_path): None for an unknown extension.
GuessMime(image_path) ==
    IF image_path.ext = "png" THEN "image/png" ELSE "None"

\* A pattern that does not recognise the name of the first page.
PageNumFromPathMissingFirst(image_path) ==
    IF image_path.stem = "page" /\ image_path.num # 1 THEN image_path.num ELSE -1

\* re.search(r"page_(\d+)\.\w+$", basename): the page number, or -1.
PageNumFromPath(image_path) ==
    IF image_path.stem = "page" THEN image_path.num ELSE -1

\* The name the File API gives to the file created by one upload_file call:
\* one per path and phase round, since a round uploads a path at most once.
RemoteName(image_path, attempt) ==
    [num |-> image_path.num, attempt |-> attempt]

AllRemoteNames ==
    {RemoteName(p, a) : p \in AllPaths, a \in 0..PHASE_MAX_RETRIES}

NoFile == [num |-> 0, attempt |-> 0]

Min(a, b) == IF a < b THEN a ELSE b

Range(s) == {s[i] : i \in 1..Len(s)}

\* The Python value of a dict-or-None variable.
PyDict(items) == [none |-> FALSE, items |-> items]

PyNone == [none |-> TRUE, items |-> <<>>]

\* Python truthiness of a dict-or-None value.
Truthy(d) == (~d.none) /\ d.items # <<>>

\* The local state of an upload worker that is not running.
IdleUploadTask ==
    [st |-> "idle", api |-> "none", retries |-> 0, backoff_time |-> INITIAL_BACKOFF,
     wait |-> 0, file |-> NoFile, state |-> "none", result |-> "none", round |-> 0]

\* References to the task dicts of tasks_for_html_generation (positions).
TaskRefs == 1..NPages

\* A result slot holding None.
NoResult == [none |-> TRUE, page_num_in_doc |-> 0, body |-> NoFile]

\* The tuple a generation worker has not produced yet.
NoReturn ==
    [kind |-> "none", returned_idx |-> 0, page_num |-> 0, html_body |-> NoFile,
     finish_reason |-> "None"]

\* The local state of a generation worker that is not running.
IdleGenTask ==
    [st |-> "idle", api |-> "none", retries |-> 0, backoff_time |-> INITIAL_BACKOFF,
     wait |-> 0, model_name |-> "none", response |-> "none", ret |-> NoReturn,
     round |-> 0]

VARIABLES
    pc,                         \* position of process_pdf_web
    exc,                        \* exception travelling to the except clause
    cancel_event,               \* threading.Event shared with the front end
    api_errors,                 \* exceptions raised by the remote API so far
    num_upload_workers,
    num_generate_workers,
    page_range,                 \* the page_range form field (characters)
    total_doc_pages,            \* page count of the PDF
    api_key,                    \* the API key variable is set in the environment
    api_error_budget,           \* exceptions the remote API raises in the run at most
    temp_image_dir,             \* the temporary directory exists
    selected_pages_0_indexed,   \* result of parse_page_ranges
    image_paths,                \* result of pdf_to_images_local
    uploaded_files_map,         \* process_pdf_web's map (dict or None)
    \* upload_to_gemini_file_api
    up_attempt,
    current_image_paths,
    failed_in_this_attempt,
    successfully_uploaded_map,  \* insertion-ordered dict: <<[path, file], ...>>
    future_to_path,             \* paths submitted in this round
    up_queue,                   \* executor work queue (FIFO)
    up_harvested,               \* futures already yielded by as_completed
    up_task,                    \* local state of each upload worker
    \* generation phase of process_pdf_web
    tasks_for_html_generation,  \* the task dicts, in creation order
    temp_generated_html_results,
    gen_attempt,
    current_html_tasks_for_retry_phase,   \* references to task dicts
    failed_tasks_for_next_round,
    future_to_task_info,        \* tasks submitted in this round
    gen_queue,                  \* executor work queue (FIFO)
    gen_harvested,              \* futures already yielded by as_completed
    completed_in_this_attempt,
    gen_task,                   \* local state of each generation worker
    merged_html,                \* the artifact written by the merge
    slot_writes,                \* history: assignments to each result slot
    html_returned,              \* history: tasks whose worker returned HTML
    \* remote File API
    remote_files,               \* names created by upload_file
    delete_calls,               \* delete_file calls per name
    \* cleanup
    cleanup_runs,
    cleanup_warnings,           \* remote files the finally clause could not delete
    cleanup_todo,
    completion_calls,           \* arguments of completion_callback, in order
    \* history
    cancelled_at,               \* phase in which the cancel event was set
    files_at_cancel,            \* remote files existing when it was set mid-upload
    in_call_at_cancel,          \* workers between line 90 and upload_file then
    late_upload_calls,          \* upload_file calls issued with the event set
    quota_exhausted             \* a remote call has raised ResourceExhausted

upload_vars ==
    <<up_attempt, current_image_paths, failed_in_this_attempt,
      successfully_uploaded_map, future_to_path, up_queue, up_harvested, up_task>>

gen_vars ==
    <<tasks_for_html_generation, temp_generated_html_results, gen_attempt,
      current_html_tasks_for_retry_phase, failed_tasks_for_next_round,
      future_to_task_info, gen_queue, gen_harvested, completed_in_this_attempt,
      gen_task, merged_html, slot_writes, html_returned>>

remote_vars == <<remote_files, delete_calls>>

(* ------------------- state outside the pipeline ----------------------- *)

VARIABLES
    original_content,           \* patcher: the page articles of the original file
    corrections_content,        \* patcher: the page articles of the corrections file
    html_final,                 \* patcher: what patch_html_files returned
    TASKS,                      \* in-memory front end: the dict of the tasks
    callback,                   \* in-memory front end: where each pipeline thread is
    status_request,             \* the /status request being served
    cancel_request,             \* the /cancel request being served
    status_response,            \* the last answer of /status
    cancel_response,            \* the last answer of /cancel
    processing_thread,          \* desktop: self.processing_thread
    thread_at,                  \* desktop: where each process_pdf_thread run is
    after_queue,                \* desktop: callbacks scheduled with root.after
    controls,                   \* desktop: state of the convert button
    db_lock,                    \* database.py: the thread holding db_lock
    tasks_row,                  \* database.py: the log and progress columns of a task
    log_call                    \* database.py: each thread's append_to_log call

patch_vars == <<original_content, corrections_content, html_final>>

flask_vars ==
    <<TASKS, callback, status_request, cancel_request, status_response,
      cancel_response>>

gui_vars == <<processing_thread, thread_at, after_queue, controls>>

\* Conversions the desktop user may start in one session.
MaxRuns == 4

ThreadIds == 1..MaxRuns

\* self.processing_thread = None.
NoThread == 0

\* The desktop window as __init__ leaves it.
GuiIdle ==
    /\ processing_thread = NoThread
    /\ thread_at = [t \in ThreadIds |-> "not started"]
    /\ after_queue = <<>>
    /\ controls = "normal"

db_vars == <<db_lock, tasks_row, log_call>>

\* Threads that report to one task and messages each of them sends.
MaxLogThreads == 2
MaxMessages == 2

LogThreads == 1..MaxLogThreads

\* threading.Lock() that nobody holds.
Unlocked == 0

\* json.dumps and json.loads of a list of strings: the TEXT column holds
\* the document, the program works on the list.
json_dumps(log_list) == [text |-> log_list]

json_loads(document) == document.text

\* No task row is being written.
DbIdle ==
    /\ db_lock = Unlocked
    /\ tasks_row = [log |-> json_dumps(<<>>), progress |-> 0]
    /\ log_call = [t \in LogThreads |-> [at |-> "idle", log_list |-> <<>>, returned |-> 0]]

\* Tasks the in-memory front end may be asked about.
TaskIds == {"task-1", "task-2"}

\* TASKS.get(task_id) for an id that is not a key.
NoTask == [status |-> "None", is_complete |-> FALSE, success |-> "None",
           output_path |-> "None", output_filename |-> "None",
           cancel_event |-> FALSE, known |-> FALSE]

NoRequest == [task_id |-> "none", at |-> "idle"]

NoResponse == [code |-> 0]

\* The in-memory front end has no task and serves no request.
FlaskIdle ==
    /\ TASKS = [t \in TaskIds |-> NoTask]
    /\ callback = [t \in TaskIds |-> [at |-> "no thread", success |-> FALSE]]
    /\ status_request = NoRequest
    /\ cancel_request = NoRequest
    /\ status_response = NoResponse
    /\ cancel_response = NoResponse

\* No call of patch_html_files is under way.
PatcherIdle ==
    /\ original_content = <<>>
    /\ corrections_content = <<>>
    /\ html_final = <<>>

\* The state the pipeline never touches.
front_vars == <<patch_vars, flask_vars, db_vars, gui_vars, db_vars>>

FrontIdle == PatcherIdle /\ FlaskIdle /\ GuiIdle /\ DbIdle

config_vars ==
    <<num_upload_workers, num_generate_workers, page_range, total_doc_pages,
      api_key, api_error_budget>>

history_vars ==
    <<cancelled_at, files_at_cancel, in_call_at_cancel, late_upload_calls,
      quota_exhausted>>

vars ==
    <<pc, exc, cancel_event, api_errors, config_vars, front_vars, temp_image_dir,
      selected_pages_0_indexed, image_paths,
      uploaded_files_map, upload_vars, remote_vars, cleanup_runs, cleanup_warnings, cleanup_todo,
      completion_calls, history_vars, gen_vars>>

\* sorted(list(indices)): the ascending sequence of a set of integers.
RECURSIVE SortedSeq(_)
SortedSeq(S) ==
    IF S = {} THEN <<>>
    ELSE LET m == CHOOSE x \in S : \A y \in S : x <= y
         IN <<m>> \o SortedSeq(S \ {m})

(* -------------------------- parse_page_ranges ------------------------- *)

\* A Python str is a sequence of one-character strings.
Digits == <<"0", "1", "2", "3", "4", "5", "6", "7", "8", "9">>

IsDigit(c) == \E i \in 1..Len(Digits) : Digits[i] = c

DigitValue(c) == (CHOOSE i \in 1..Len(Digits) : Digits[i] = c) - 1

\* str.strip() on the characters of the model (the blank is the only
\* whitespace among them).
RECURSIVE LStrip(_)
LStrip(s) == IF s # <<>> /\ Head(s) = " " THEN LStrip(Tail(s)) ELSE s

RECURSIVE RStrip(_)
RStrip(s) ==
    IF s # <<>> /\ s[Len(s)] = " " THEN RStrip(SubSeq(s, 1, Len(s) - 1)) ELSE s

Strip(s) == RStrip(LStrip(s))

\* The position of the first c in s, 0 when there is none.
Find(s, c) ==
    IF \E i \in 1..Len(s) : s[i] = c
    THEN CHOOSE i \in 1..Len(s) : s[i] = c /\ \A j \in 1..(i - 1) : s[j] # c
    ELSE 0

\* str.split(sep) for a one-character separator.
RECURSIVE Split(_, _)
Split(s, sep) ==
    LET i == Find(s, sep)
    IN IF i = 0 THEN <<s>>
       ELSE <<SubSeq(s, 1, i - 1)>> \o Split(SubSeq(s, i + 1, Len(s)), sep)

RECURSIVE DecimalValue(_)
DecimalValue(ds) ==
    IF ds = <<>> THEN 0
    ELSE 10 * DecimalValue(SubSeq(ds, 1, Len(ds) - 1)) + DigitValue(ds[Len(ds)])

\* int(s): surrounding whitespace is ignored, a sign may come first, at
\* least one digit must follow and nothing else; ok = FALSE is ValueError.
PyInt(s) ==
    LET t == Strip(s)
        signed == t # <<>> /\ Head(t) \in {"-", "+"}
        ds == IF signed THEN Tail(t) ELSE t
    IN IF ds = <<>> \/ \E i \in 1..Len(ds) : ~IsDigit(ds[i])
       THEN [ok |-> FALSE, value |-> 0]
       ELSE [ok |-> TRUE,
             value |-> IF signed /\ Head(t) = "-"
                       THEN 0 - DecimalValue(ds) ELSE DecimalValue(ds)]

\* The two results of parse_page_ranges: None or a list.
ParseNone == [none |-> TRUE, list |-> <<>>]

ParseList(l) == [none |-> FALSE, list |-> l]

\* A part rejected on line 65, 68 or 73, 75.
BadPart == [ok |-> FALSE, pages |-> {}]

\* The end of a range whose end_str is empty, taken one page short.
OpenRangeEndExclusive(total_pages) == total_pages - 2

\* Line 61: an open range ends at the last page.
OpenRangeEnd(total_pages) == total_pages - 1

\* Lines 54-75: the body of the loop for one part.
PartIndicesOf(part_raw, total_pages) ==
    LET part == Strip(part_raw)
    IN IF part = <<>> THEN [ok |-> TRUE, pages |-> {}]
       ELSE IF Find(part, "-") # 0
       THEN LET i == Find(part, "-")
                start_str == SubSeq(part, 1, i - 1)
                end_str == SubSeq(part, i + 1, Len(part))
                start_idx == PyInt(start_str).value - 1
                end_idx == IF end_str = <<>> THEN OpenRangeEnd(total_pages)
                           ELSE PyInt(end_str).value - 1
            IN IF ~PyInt(start_str).ok \/ (end_str # <<>> /\ ~PyInt(end_str).ok)
               THEN BadPart
               ELSE IF ~(/\ 0 <= start_idx /\ start_idx < total_pages
                         /\ 0 <= end_idx /\ end_idx < total_pages
                         /\ start_idx <= end_idx)
               THEN BadPart
               ELSE [ok |-> TRUE, pages |-> start_idx..end_idx]
       ELSE LET idx == PyInt(part).value - 1
            IN IF ~PyInt(part).ok THEN BadPart
               ELSE IF ~(0 <= idx /\ idx < total_pages) THEN BadPart
               ELSE [ok |-> TRUE, pages |-> {idx}]

\* A loop that skips a part it cannot use and goes on with the next one.
PartIndicesSkippingBadParts(part_raw, total_pages) ==
    IF PartIndicesOf(part_raw, total_pages).ok
    THEN PartIndicesOf(part_raw, total_pages) ELSE [ok |-> TRUE, pages |-> {}]

\* What the loop does with a part: a part that is not usable makes the
\* function return None.
PartIndices(part_raw, total_pages) ==
    IF PartIndicesOf(part_raw, total_pages).ok
    THEN PartIndicesOf(part_raw, total_pages) ELSE BadPart

\* Lines 53-75: the loop over the parts; the first rejected part ends it.
RECURSIVE CollectIndices(_, _, _)
CollectIndices(parts, total_pages, indices) ==
    IF parts = <<>> THEN [ok |-> TRUE, pages |-> indices]
    ELSE LET r == PartIndices(Head(parts), total_pages)
         IN IF ~r.ok THEN BadPart
            ELSE CollectIndices(Tail(parts), total_pages, indices \cup r.pages)

\* A parser that answers an empty selection with the empty list.
NoPagesIsAnEmptyList(indices, page_range_str) == FALSE

\* Line 76: nothing was selected although the string is not blank.
NoPagesIsAnError(indices, page_range_str) ==
    indices = {} /\ Strip(page_range_str) # <<>>

\* Lines 49-77.
parse_page_ranges(page_range_str, total_pages) ==
    IF Strip(page_range_str) = <<>>
    THEN ParseList([i \in 1..total_pages |-> i - 1])
    ELSE LET r == CollectIndices(Split(page_range_str, ","), total_pages, {})
         IN IF ~r.ok THEN ParseNone
            ELSE IF NoPagesIsAnError(r.pages, page_range_str) THEN ParseNone
            ELSE ParseList(SortedSeq(r.pages))

\* The worker counts a user can put in the form: 0 stands for every value
\* below 1.
WorkerFormValues == 0..MaxWorkers

\* The web upload route hands int(form value) to the pipeline as it is.
WebWorkers(form_value) == form_value

\* start_conversion of the desktop front end raises a value below 1 to 1.
DesktopWorkers(form_value) == IF form_value < 1 THEN 1 ELSE form_value

\* concurrent.futures.ThreadPoolExecutor(max_workers=n) raises ValueError
\* for n <= 0.
ThreadPoolExecutor(max_workers) ==
    IF max_workers <= 0 THEN "ValueError" ELSE "executor"

\* The page range a user types to select the pages S: nothing for the whole
\* document, else the 1-based numbers separated by commas.
RECURSIVE JoinPages(_)
JoinPages(pages) ==
    IF pages = <<>> THEN <<>>
    ELSE IF Len(pages) = 1 THEN <<Digits[pages[1] + 2]>>
    ELSE <<Digits[pages[1] + 2], ",">> \o JoinPages(Tail(pages))

RunRangeString(S) ==
    IF S = 0..(NPages - 1) THEN <<>> ELSE JoinPages(SortedSeq(S))

\* Page ranges that select nothing usable: a malformed token, a string of
\* separators, a reversed range.
InvalidRangeStrings == {<<"x">>, <<",", " ">>, <<"2", "-", "1">>}

\* The page_range form field of the runs that are checked.
RunRangeStrings ==
    {RunRangeString(S) : S \in (SUBSET (0..(NPages - 1))) \ {{}}}
       \cup InvalidRangeStrings

\* A run that goes on without looking at the API key.
ApiKeyNeverMissing(key) == FALSE

\* Line 1249: os.environ.get returned nothing.
ApiKeyMissing(key) == ~key

Init ==
    /\ pc = "start"
    /\ exc = "none"
    /\ cancel_event = FALSE
    /\ api_errors = 0
    /\ api_error_budget = MaxApiErrors
    /\ num_upload_workers \in {WebWorkers(v) : v \in WorkerFormValues}
    /\ num_generate_workers \in {WebWorkers(v) : v \in WorkerFormValues}
    /\ page_range \in RunRangeStrings
    /\ total_doc_pages = NPages
    /\ api_key \in BOOLEAN
    /\ temp_image_dir = FALSE
    /\ selected_pages_0_indexed = ParseList(<<>>)
    /\ image_paths = <<>>
    /\ uploaded_files_map = PyDict(<<>>)
    /\ up_attempt = 0
    /\ current_image_paths = <<>>
    /\ failed_in_this_attempt = <<>>
    /\ successfully_uploaded_map = <<>>
    /\ future_to_path = {}
    /\ up_queue = <<>>
    /\ up_harvested = {}
    /\ up_task = [p \in AllPaths |-> IdleUploadTask]
    /\ tasks_for_html_generation = <<>>
    /\ temp_generated_html_results = <<>>
    /\ gen_attempt = 0
    /\ current_html_tasks_for_retry_phase = <<>>
    /\ failed_tasks_for_next_round = <<>>
    /\ future_to_task_info = {}
    /\ gen_queue = <<>>
    /\ gen_harvested = {}
    /\ completed_in_this_attempt = 0
    /\ gen_task = [k \in TaskRefs |-> IdleGenTask]
    /\ merged_html = <<>>
    /\ slot_writes = [k \in TaskRefs |-> 0]
    /\ html_returned = {}
    /\ remote_files = {}
    /\ delete_calls = [f \in AllRemoteNames |-> 0]
    /\ cleanup_runs = 0
    /\ cleanup_warnings = {}
    /\ cleanup_todo = <<>>
    /\ completion_calls = <<>>
    /\ cancelled_at = "never"
    /\ files_at_cancel = {}
    /\ in_call_at_cancel = {}
    /\ late_upload_calls = [p \in AllPaths |-> 0]
    /\ quota_exhausted = FALSE
    /\ FrontIdle

(* ------------------------------ helpers ------------------------------- *)

\* The arguments of one completion_callback call: the success flag and the
\* message (the output locator on success, str(e) on failure).
CompletionArgs(success, message) == [success |-> success, message |-> message]

\* Lines 1370-1371 and 1377-1378: the locator the merged document is written
\* under and reported with, given the numbers of generated and of attempted
\* pages: always the caller's initial_output_html_path_base.
OutputPath(num_successfully_generated, total_attempted) ==
    "initial_output_html_path_base"

\* raise: control goes to the except clause of process_pdf_web.
Raise(e) ==
    /\ pc' = "except"
    /\ exc' = e

\* Worker positions that occupy a pool thread.
RunningStates == {"check", "call", "backoff", "poll", "after_call"}

UploadRunning == {p \in AllPaths : up_task[p].st \in RunningStates}

(* --------------------- gemini_api_call_with_retry --------------------- *)

\* A retry loop without the check of line 90: every attempt goes to the call.
RetryLoopEntryUnchecked(t, cancelled) == [t EXCEPT !.st = "call"]

\* Line 90: the cancellation check that opens every attempt.
RetryLoopEntry(t, cancelled) ==
    IF cancelled THEN [t EXCEPT !.st = "raised"] ELSE [t EXCEPT !.st = "call"]

\* A retryable exception that always leads to another attempt.
RetryableErrorWithoutLimit(t) ==
    [t EXCEPT !.retries = t.retries + 1, !.st = "backoff", !.wait = t.backoff_time]

\* Lines 93-99: a retryable exception; past the limit it is re-raised.
RetryableError(t) ==
    IF t.retries + 1 > MAX_RETRIES_PER_CALL
    THEN [t EXCEPT !.retries = t.retries + 1, !.st = "raised"]
    ELSE [t EXCEPT !.retries = t.retries + 1, !.st = "backoff", !.wait = t.backoff_time]

\* Lines 100-103: one iteration of the wait loop (check, sleep one second);
\* after the last one the backoff doubles up to MAX_BACKOFF.
BackoffStep(t, cancelled) ==
    IF cancelled THEN [t EXCEPT !.st = "raised"]
    ELSE IF t.wait > 1 THEN [t EXCEPT !.wait = t.wait - 1]
    ELSE [t EXCEPT !.wait = 0, !.st = "check",
                   !.backoff_time = Min(t.backoff_time * 2, MAX_BACKOFF)]

\* Lines 104-109: ResourceExhausted or any other exception is re-raised.
FatalError(t) == [t EXCEPT !.st = "raised"]

\* The call starts with retries = 0 and backoff_time = INITIAL_BACKOFF.
BeginApiCall(t, api) ==
    [t EXCEPT !.st = "check", !.api = api, !.retries = 0,
              !.backoff_time = INITIAL_BACKOFF, !.wait = 0]

(* ----------------------------- front end ------------------------------ *)

\* The phase of process_pdf_web a position belongs to.
PhaseOf(at) ==
    IF at \in {"upload_loop", "upload_as_completed", "upload_join", "upload_return"}
    THEN "upload"
    ELSE IF at \in {"gen_loop", "gen_as_completed", "gen_join"}
    THEN "generation"
    ELSE IF at \in {"merge", "complete", "except", "finally", "cleanup_remote"}
    THEN "ending"
    ELSE "other"

\* cancel_task: the event is set for a task that is not complete.
RequestCancel ==
    /\ ~cancel_event
    /\ completion_calls = <<>>
    /\ pc # "done"
    /\ cancel_event' = TRUE
    /\ cancelled_at' = PhaseOf(pc)
    /\ files_at_cancel' = IF PhaseOf(pc) = "upload" THEN remote_files ELSE {}
    /\ in_call_at_cancel' =
          {p \in AllPaths : up_task[p].st = "call" /\ up_task[p].api = "upload_file"}
    /\ UNCHANGED <<late_upload_calls, quota_exhausted>>
    /\ UNCHANGED <<pc, exc, api_errors, config_vars, front_vars, temp_image_dir,
                   selected_pages_0_indexed, image_paths, uploaded_files_map,
                   upload_vars, remote_vars, cleanup_runs, cleanup_warnings, cleanup_todo,
                   completion_calls, gen_vars>>

(* ------------------- process_pdf_web: before upload ------------------- *)

\* Lines 1229-1256: temporary directory, API key, page range.
Configure ==
    /\ pc = "start"
    /\ temp_image_dir' = TRUE
    /\ IF ApiKeyMissing(api_key)
       THEN /\ Raise("ValueError")
            /\ UNCHANGED selected_pages_0_indexed
       ELSE /\ selected_pages_0_indexed' =
                  parse_page_ranges(page_range, total_doc_pages)
            /\ IF selected_pages_0_indexed'.none
               THEN Raise("ValueError")
               ELSE pc' = "rasterize" /\ exc' = exc
    /\ UNCHANGED <<cancel_event, api_errors, config_vars, front_vars, image_paths,
                   uploaded_files_map, upload_vars, remote_vars, cleanup_runs, cleanup_warnings,
                   cleanup_todo, completion_calls, history_vars, gen_vars>>

\* pdf_to_images_local and line 1260.
Rasterize ==
    /\ pc = "rasterize"
    /\ \E ok \in BOOLEAN :
          IF cancel_event
          THEN Raise("OperationCancelledError") /\ UNCHANGED image_paths
          ELSE IF ~ok
          THEN Raise("Exception") /\ UNCHANGED image_paths
          ELSE /\ image_paths' = [i \in 1..Len(selected_pages_0_indexed.list) |->
                                     ImagePath(selected_pages_0_indexed.list[i])]
               /\ pc' = "after_rasterize"
               /\ exc' = exc
    /\ UNCHANGED <<cancel_event, api_errors, config_vars, front_vars, temp_image_dir,
                   selected_pages_0_indexed, uploaded_files_map, upload_vars,
                   remote_vars, cleanup_runs, cleanup_warnings, cleanup_todo, completion_calls,
                   history_vars, gen_vars>>

\* Line 1261, then the entry of upload_to_gemini_file_api (lines 196-208).
AfterRasterize ==
    /\ pc = "after_rasterize"
    /\ IF cancel_event
       THEN /\ Raise("OperationCancelledError")
            /\ UNCHANGED <<current_image_paths, successfully_uploaded_map, up_attempt>>
       ELSE /\ pc' = "upload_loop"
            /\ exc' = exc
            /\ current_image_paths' = image_paths
            /\ successfully_uploaded_map' = <<>>
            /\ up_attempt' = 0
    /\ UNCHANGED <<cancel_event, api_errors, config_vars, front_vars, temp_image_dir,
                   selected_pages_0_indexed, image_paths, uploaded_files_map,
                   failed_in_this_attempt, future_to_path, up_queue, up_harvested,
                   up_task, remote_vars, cleanup_runs, cleanup_warnings, cleanup_todo,
                   completion_calls, history_vars, gen_vars>>

(* --------------- upload_to_gemini_file_api: coordinator --------------- *)

\* Lines 210-249: the head of a phase round and the submission of its tasks.
UploadRoundBegin ==
    /\ pc = "upload_loop"
    /\ LET mime_failed == SelectSeq(current_image_paths, LAMBDA p : GuessMime(p) = "None")
           tasks_to_submit_this_round ==
               SelectSeq(current_image_paths, LAMBDA p : GuessMime(p) # "None")
       IN IF up_attempt > PHASE_MAX_RETRIES \/ current_image_paths = <<>> \/ cancel_event
          THEN /\ pc' = "upload_return"
               /\ exc' = exc
               /\ UNCHANGED upload_vars
          ELSE IF tasks_to_submit_this_round = <<>>
          THEN /\ current_image_paths' = mime_failed
               /\ failed_in_this_attempt' = mime_failed
               /\ up_attempt' = up_attempt + 1
               /\ pc' = "upload_loop"
               /\ exc' = exc
               /\ UNCHANGED <<successfully_uploaded_map, future_to_path, up_queue,
                              up_harvested, up_task>>
          ELSE IF ThreadPoolExecutor(num_upload_workers) # "executor"
          THEN /\ Raise(ThreadPoolExecutor(num_upload_workers))
               /\ up_attempt' = 0
               /\ current_image_paths' = <<>>
               /\ failed_in_this_attempt' = <<>>
               /\ UNCHANGED <<successfully_uploaded_map, future_to_path, up_queue,
                              up_harvested, up_task>>
          ELSE /\ failed_in_this_attempt' = mime_failed
               /\ future_to_path' = Range(tasks_to_submit_this_round)
               /\ up_queue' = tasks_to_submit_this_round
               /\ up_harvested' = {}
               /\ up_task' = [p \in AllPaths |->
                                 IF p \in Range(tasks_to_submit_this_round)
                                 THEN [IdleUploadTask EXCEPT !.st = "queued",
                                                             !.round = up_attempt]
                                 ELSE up_task[p]]
               /\ pc' = "upload_as_completed"
               /\ exc' = exc
               /\ UNCHANGED <<up_attempt, current_image_paths, successfully_uploaded_map>>
    /\ UNCHANGED <<cancel_event, api_errors, config_vars, front_vars, temp_image_dir,
                   selected_pages_0_indexed, image_paths, uploaded_files_map,
                   remote_vars, cleanup_runs, cleanup_warnings, cleanup_todo, completion_calls,
                   history_vars, gen_vars>>

\* A harvest that forgets the paths whose worker returned no file object.
UploadFailedDropped(failed, path, result) == failed

\* Lines 255-267: failed_in_this_attempt after one future's result is filed.
UploadFailedAfter(failed, path, result) ==
    IF result = "file" THEN failed ELSE Append(failed, path)

\* A harvest that returns to the caller after the first result, leaving the
\* executor without waiting for it.
UploadLoopReturnsEarly(result, all_harvested) == "upload_return"

\* Lines 250-271: where the coordinator goes after one future is handled: the
\* loop ends by the break of line 265 or when as_completed is exhausted.
UploadLoopNext(result, all_harvested) ==
    IF result = "OperationCancelledError" \/ all_harvested
    THEN "upload_join" ELSE "upload_as_completed"

\* Lines 250-271: as_completed yields a finished future and its result is filed.
UploadHarvest(p) ==
    /\ pc = "upload_as_completed"
    /\ p \in future_to_path \ up_harvested
    /\ up_task[p].st = "done"
    /\ IF cancel_event
       THEN /\ pc' = "upload_join"
            /\ UNCHANGED <<up_harvested, successfully_uploaded_map, failed_in_this_attempt>>
       ELSE /\ up_harvested' = up_harvested \cup {p}
            /\ IF up_task[p].result = "file"
               THEN /\ successfully_uploaded_map' =
                          Append(successfully_uploaded_map,
                                 [path |-> p, file |-> up_task[p].file])
               ELSE UNCHANGED successfully_uploaded_map
            /\ failed_in_this_attempt' =
                  UploadFailedAfter(failed_in_this_attempt, p, up_task[p].result)
            /\ pc' = UploadLoopNext(up_task[p].result, up_harvested' = future_to_path)
    /\ UNCHANGED <<exc, cancel_event, api_errors, config_vars, front_vars, temp_image_dir,
                   selected_pages_0_indexed, image_paths, uploaded_files_map,
                   up_attempt, current_image_paths, future_to_path, up_queue,
                   up_task, remote_vars, cleanup_runs, cleanup_warnings, cleanup_todo,
                   completion_calls, history_vars, gen_vars>>

\* An executor that is shut down without waiting (shutdown(wait=False)).
ExecutorNotAwaited(tasks, submitted) == TRUE

\* The with-block exit waits for every submitted task (shutdown(wait=True)).
ExecutorDrained(tasks, submitted) ==
    \A p \in submitted : tasks[p].st = "done"

\* A finished worker's future is dropped with its executor; a worker that
\* is still running keeps running.
Forget(t, idle) == IF t.st = "done" THEN idle ELSE t

\* Line 243 (exit of the with block), then lines 273-274.
UploadJoin ==
    /\ pc = "upload_join"
    /\ ExecutorDrained(up_task, future_to_path)
    /\ current_image_paths' = failed_in_this_attempt
    /\ IF failed_in_this_attempt = <<>> \/ cancel_event
       THEN pc' = "upload_return" /\ UNCHANGED up_attempt
       ELSE pc' = "upload_loop" /\ up_attempt' = up_attempt + 1
    /\ UNCHANGED <<exc, cancel_event, api_errors, config_vars, front_vars, temp_image_dir,
                   selected_pages_0_indexed, image_paths, uploaded_files_map,
                   failed_in_this_attempt, successfully_uploaded_map,
                   future_to_path, up_queue, up_harvested, up_task, remote_vars,
                   cleanup_runs, cleanup_warnings, cleanup_todo, completion_calls, history_vars, gen_vars>>

\* Lines 276-287: the phase raises, returns None or returns the map, which
\* line 1263 assigns to uploaded_files_map; the function's locals are gone.
\* An upload phase that gives up as soon as one image is missing.
UploadResultAllOrNothing(uploaded, image_paths_to_upload) ==
    IF Len(uploaded) < Len(image_paths_to_upload)
    THEN PyNone ELSE PyDict(uploaded)

\* Lines 278-287: None when nothing was uploaded although images were
\* given, else the map itself.
UploadResult(uploaded, image_paths_to_upload) ==
    IF uploaded = <<>> /\ Len(image_paths_to_upload) > 0
    THEN PyNone ELSE PyDict(uploaded)

UploadReturn ==
    /\ pc = "upload_return"
    /\ IF cancel_event
       THEN Raise("OperationCancelledError") /\ UNCHANGED uploaded_files_map
       ELSE /\ uploaded_files_map' =
                  UploadResult(successfully_uploaded_map, image_paths)
            /\ pc' = "after_upload"
            /\ exc' = exc
    /\ up_attempt' = 0
    /\ current_image_paths' = <<>>
    /\ failed_in_this_attempt' = <<>>
    /\ successfully_uploaded_map' = <<>>
    /\ future_to_path' = {}
    /\ up_queue' = <<>>
    /\ up_harvested' = {}
    /\ up_task' = [p \in AllPaths |-> Forget(up_task[p], IdleUploadTask)]
    /\ UNCHANGED <<cancel_event, api_errors, config_vars, front_vars, temp_image_dir,
                   selected_pages_0_indexed, image_paths, remote_vars,
                   cleanup_runs, cleanup_warnings, cleanup_todo, completion_calls, history_vars,
                   gen_vars>>

(* -------------------- _upload_single_image_task ----------------------- *)

\* A worker that hands back its file object whatever state the file ended in.
UploadTaskDoneKeepsFile(t, result) ==
    [IdleUploadTask EXCEPT !.st = "done", !.round = t.round, !.file = t.file,
                           !.result = IF t.file # NoFile THEN "file" ELSE result]

\* The worker has returned or raised; its locals are gone.
UploadTaskDone(t, result) ==
    [IdleUploadTask EXCEPT !.st = "done", !.result = result, !.round = t.round,
                           !.file = IF result = "file" THEN t.file ELSE NoFile]

\* Lines 188-191: an exception raised inside the try block (from
\* gemini_api_call_with_retry or line 163) becomes `return image_path, None`.
UploadCatch(t) ==
    IF t.st = "raised" THEN UploadTaskDone(t, "None") ELSE t

\* genai.delete_file(name): one more call on that name.
DeleteFile(calls, name) == [calls EXCEPT ![name] = @ + 1]

\* A pool thread takes the next queued task; line 147 is its first statement.
UploadTaskStart(p) ==
    /\ up_queue # <<>>
    /\ Head(up_queue) = p
    /\ Cardinality(UploadRunning) < num_upload_workers
    /\ up_queue' = Tail(up_queue)
    /\ up_task' = [up_task EXCEPT ![p] =
                      IF cancel_event
                      THEN UploadTaskDone(@, "OperationCancelledError")
                      ELSE BeginApiCall(@, "upload_file")]
    /\ UNCHANGED <<pc, exc, cancel_event, api_errors, config_vars, front_vars, temp_image_dir,
                   selected_pages_0_indexed, image_paths, uploaded_files_map,
                   up_attempt, current_image_paths, failed_in_this_attempt,
                   successfully_uploaded_map, future_to_path, up_harvested,
                   remote_vars, cleanup_runs, cleanup_warnings, cleanup_todo, completion_calls,
                   history_vars, gen_vars>>

\* gemini_api_call_with_retry line 90, inside the worker's try block.
UploadRetryCheck(p) ==
    /\ up_task[p].st = "check"
    /\ up_task' = [up_task EXCEPT ![p] = UploadCatch(RetryLoopEntry(@, cancel_event))]
    /\ UNCHANGED <<pc, exc, cancel_event, api_errors, config_vars, front_vars, temp_image_dir,
                   selected_pages_0_indexed, image_paths, uploaded_files_map,
                   up_attempt, current_image_paths, failed_in_this_attempt,
                   successfully_uploaded_map, future_to_path, up_queue,
                   up_harvested, remote_vars, cleanup_runs, cleanup_warnings, cleanup_todo,
                   completion_calls, history_vars, gen_vars>>

\* gemini_api_call_with_retry lines 100-103, inside the worker's try block.
UploadBackoff(p) ==
    /\ up_task[p].st = "backoff"
    /\ up_task' = [up_task EXCEPT ![p] = UploadCatch(BackoffStep(@, cancel_event))]
    /\ UNCHANGED <<pc, exc, cancel_event, api_errors, config_vars, front_vars, temp_image_dir,
                   selected_pages_0_indexed, image_paths, uploaded_files_map,
                   up_attempt, current_image_paths, failed_in_this_attempt,
                   successfully_uploaded_map, future_to_path, up_queue,
                   up_harvested, remote_vars, cleanup_runs, cleanup_warnings, cleanup_todo,
                   completion_calls, history_vars, gen_vars>>

FileStates == {"PROCESSING", "ACTIVE", "FAILED"}

ApiExceptions == {"Retryable", "ResourceExhausted", "Exception"}

\* Line 92 with api_function = genai.upload_file (lines 149-152).
UploadFileCall(p) ==
    /\ up_task[p].st = "call"
    /\ up_task[p].api = "upload_file"
    /\ late_upload_calls' =
          [late_upload_calls EXCEPT ![p] = IF cancel_event THEN Min(@ + 1, 2) ELSE @]
    /\ \E outcome \in FileStates \cup ApiExceptions :
          IF outcome \in FileStates
          THEN /\ remote_files' = remote_files \cup {RemoteName(p, up_task[p].round)}
               /\ up_task' = [up_task EXCEPT ![p] =
                                 [@ EXCEPT !.st = "poll",
                                           !.file = RemoteName(p, up_task[p].round),
                                           !.state = outcome]]
               /\ UNCHANGED <<api_errors, quota_exhausted>>
          ELSE /\ api_errors < api_error_budget
               /\ api_errors' = api_errors + 1
               /\ quota_exhausted' = (quota_exhausted \/ outcome = "ResourceExhausted")
               /\ up_task' = [up_task EXCEPT ![p] =
                                 UploadCatch(IF outcome = "Retryable"
                                             THEN RetryableError(@) ELSE FatalError(@))]
               /\ UNCHANGED remote_files
    /\ UNCHANGED <<pc, exc, cancel_event, config_vars, front_vars, temp_image_dir,
                   selected_pages_0_indexed, image_paths, uploaded_files_map,
                   up_attempt, current_image_paths, failed_in_this_attempt,
                   successfully_uploaded_map, future_to_path, up_queue,
                   up_harvested, delete_calls, cleanup_runs, cleanup_warnings, cleanup_todo,
                   completion_calls, cancelled_at, files_at_cancel,
                   in_call_at_cancel, gen_vars>>

\* Lines 155-187: the test of the polling loop and what follows it.
UploadPoll(p) ==
    /\ up_task[p].st = "poll"
    /\ \E timed_out \in BOOLEAN :
          IF up_task[p].state = "PROCESSING" /\ ~cancel_event /\ ~timed_out
          THEN /\ up_task' = [up_task EXCEPT ![p] = BeginApiCall(@, "get_file")]
               /\ UNCHANGED delete_calls
          ELSE IF up_task[p].state = "ACTIVE"
          THEN /\ up_task' = [up_task EXCEPT ![p] = UploadTaskDone(@, "file")]
               /\ UNCHANGED delete_calls
          ELSE /\ delete_calls' = DeleteFile(delete_calls, up_task[p].file)
               /\ up_task' = [up_task EXCEPT ![p] = UploadTaskDone(@, "None")]
    /\ UNCHANGED <<pc, exc, cancel_event, api_errors, config_vars, front_vars, temp_image_dir,
                   selected_pages_0_indexed, image_paths, uploaded_files_map,
                   up_attempt, current_image_paths, failed_in_this_attempt,
                   successfully_uploaded_map, future_to_path, up_queue,
                   up_harvested, remote_files, cleanup_runs, cleanup_warnings, cleanup_todo,
                   completion_calls, history_vars, gen_vars>>

\* Line 92 with api_function = genai.get_file (lines 173-174).
GetFileCall(p) ==
    /\ up_task[p].st = "call"
    /\ up_task[p].api = "get_file"
    /\ \E outcome \in FileStates \cup ApiExceptions :
          IF outcome \in FileStates
          THEN /\ up_task' = [up_task EXCEPT ![p] =
                                 [@ EXCEPT !.st = "poll", !.state = outcome]]
               /\ UNCHANGED <<api_errors, quota_exhausted>>
          ELSE /\ api_errors < api_error_budget
               /\ api_errors' = api_errors + 1
               /\ quota_exhausted' = (quota_exhausted \/ outcome = "ResourceExhausted")
               /\ up_task' = [up_task EXCEPT ![p] =
                                 UploadCatch(IF outcome = "Retryable"
                                             THEN RetryableError(@) ELSE FatalError(@))]
    /\ UNCHANGED <<pc, exc, cancel_event, config_vars, front_vars, temp_image_dir,
                   selected_pages_0_indexed, image_paths, uploaded_files_map,
                   up_attempt, current_image_paths, failed_in_this_attempt,
                   successfully_uploaded_map, future_to_path, up_queue,
                   up_harvested, remote_vars, cleanup_runs, cleanup_warnings, cleanup_todo,
                   completion_calls, cancelled_at, files_at_cancel,
                   in_call_at_cancel, late_upload_calls, gen_vars>>

(* ------------------ process_pdf_web: after the upload ----------------- *)

\* Lines 1265-1266.
AfterUpload ==
    /\ pc = "after_upload"
    /\ IF ~Truthy(uploaded_files_map) THEN Raise("Exception")
       ELSE IF cancel_event THEN Raise("OperationCancelledError")
       ELSE pc' = "build_tasks" /\ exc' = exc
    /\ UNCHANGED <<cancel_event, api_errors, config_vars, front_vars, temp_image_dir,
                   selected_pages_0_indexed, image_paths, uploaded_files_map,
                   upload_vars, remote_vars, cleanup_runs, cleanup_warnings, cleanup_todo,
                   completion_calls, history_vars, gen_vars>>

(* --------------- process_pdf_web: the generation phase ---------------- *)

\* One step of a stable sort by page number: x goes after the elements
\* whose key is not larger.
InsertByPageNum(sorted, x) ==
    LET n == Cardinality({i \in 1..Len(sorted) :
                             PageNumFromPath(sorted[i]) <= PageNumFromPath(x)})
    IN SubSeq(sorted, 1, n) \o <<x>> \o SubSeq(sorted, n + 1, Len(sorted))

\* The keys of uploaded_files_map in insertion order, without the sort.
InsertionOrder(paths) == paths

\* Lines 1279-1282: sorted(uploaded_files_map.keys(), key=page number).
RECURSIVE SortedByPageNum(_)
SortedByPageNum(paths) ==
    IF paths = <<>> THEN <<>>
    ELSE InsertByPageNum(SortedByPageNum(SubSeq(paths, 1, Len(paths) - 1)),
                         paths[Len(paths)])

\* Lines 1273-1297: one task dict per uploaded path whose page number is
\* known; original_idx is the position among the sorted paths.
BuildTasks(items, selected_model_name) ==
    LET keys == [i \in 1..Len(items) |-> items[i].path]
        sorted_uploaded_image_paths == SortedByPageNum(keys)
        FileOf(path) == (CHOOSE it \in Range(items) : it.path = path).file
        entries == [i \in 1..Len(sorted_uploaded_image_paths) |->
                      [original_idx |-> i - 1,
                       page_num_in_doc |-> PageNumFromPath(sorted_uploaded_image_paths[i]),
                       file_api_object |-> FileOf(sorted_uploaded_image_paths[i]),
                       local_img_path |-> sorted_uploaded_image_paths[i],
                       model_to_use |-> selected_model_name]]
    IN SelectSeq(entries, LAMBDA e : e.page_num_in_doc # -1)

\* Lines 1269-1300, for a run started with the front end's default model.
PrepareGeneration ==
    /\ pc = "build_tasks"
    /\ tasks_for_html_generation' =
          BuildTasks(uploaded_files_map.items, DEFAULT_GEMINI_MODEL)
    /\ temp_generated_html_results' =
          [i \in 1..Len(tasks_for_html_generation') |-> NoResult]
    /\ current_html_tasks_for_retry_phase' =
          [i \in 1..Len(tasks_for_html_generation') |-> i]
    /\ gen_attempt' = 0
    /\ pc' = "gen_loop"
    /\ UNCHANGED <<exc, cancel_event, api_errors, config_vars, front_vars, temp_image_dir,
                   selected_pages_0_indexed, image_paths, uploaded_files_map,
                   upload_vars, remote_vars, cleanup_runs, cleanup_warnings, cleanup_todo,
                   completion_calls, history_vars, failed_tasks_for_next_round,
                   future_to_task_info, gen_queue, gen_harvested,
                   completed_in_this_attempt, gen_task, merged_html, slot_writes,
                   html_returned>>

\* Lines 1302-1317: the head of a generation round and its submissions.
GenRoundBegin ==
    /\ pc = "gen_loop"
    /\ IF gen_attempt > PHASE_MAX_RETRIES
          \/ current_html_tasks_for_retry_phase = <<>> \/ cancel_event
       THEN /\ pc' = "after_generation"
            /\ exc' = exc
            /\ UNCHANGED <<failed_tasks_for_next_round, future_to_task_info,
                           gen_queue, gen_harvested, completed_in_this_attempt,
                           gen_task>>
       ELSE IF ThreadPoolExecutor(num_generate_workers) # "executor"
       THEN /\ Raise(ThreadPoolExecutor(num_generate_workers))
            /\ UNCHANGED <<failed_tasks_for_next_round, future_to_task_info,
                           gen_queue, gen_harvested, completed_in_this_attempt,
                           gen_task>>
       ELSE /\ completed_in_this_attempt' = 0
            /\ failed_tasks_for_next_round' = <<>>
            /\ future_to_task_info' = Range(current_html_tasks_for_retry_phase)
            /\ gen_queue' = current_html_tasks_for_retry_phase
            /\ gen_harvested' = {}
            /\ gen_task' = [k \in TaskRefs |->
                               IF k \in Range(current_html_tasks_for_retry_phase)
                               THEN [IdleGenTask EXCEPT
                                        !.st = "queued",
                                        !.model_name =
                                            tasks_for_html_generation[k].model_to_use,
                                        !.round = gen_attempt]
                               ELSE gen_task[k]]
            /\ pc' = "gen_as_completed"
            /\ exc' = exc
    /\ UNCHANGED <<cancel_event, api_errors, config_vars, front_vars, temp_image_dir,
                   selected_pages_0_indexed, image_paths, uploaded_files_map,
                   upload_vars, remote_vars, cleanup_runs, cleanup_warnings, cleanup_todo,
                   completion_calls, history_vars, tasks_for_html_generation,
                   temp_generated_html_results, gen_attempt,
                   current_html_tasks_for_retry_phase, merged_html, slot_writes,
                   html_returned>>

\* A harvest that stores results in the order the futures complete.
IndexByCompletion(original_task_info, ret, completed) == completed

\* Lines 1320-1321: the list index a result is stored under.
IndexForAssignment(original_task_info, ret, completed) ==
    original_task_info.original_idx

\* A harvest that keeps every handled task for the next round, stored or not.
GenFailedAlways(failed, task_ref, stored, ret) == Append(failed, task_ref)

\* Lines 1325-1344: failed_tasks_for_next_round after one future's result is
\* handled (stored: the HTML went into the buffer).
GenFailedAfter(failed, task_ref, stored, ret) ==
    IF stored THEN failed ELSE Append(failed, task_ref)

\* A round loop that resubmits every task instead of the failed ones.
NextRoundResubmitsAll(failed, all_tasks) ==
    IF failed = <<>> THEN <<>> ELSE all_tasks

\* Line 1349: the tasks of the next round.
NextRoundTasks(failed, all_tasks) == failed

\* Python truthiness of an html_body.
HasHtml(html_body) == html_body # NoFile

\* A harvest that leaves the task's model as it is after a truncation.
ModelForRetryUnchanged(model_to_use, ret) == model_to_use

\* A harvest that escalates the model after every failure.
ModelForRetryAlwaysEscalated(model_to_use, ret) == MODELO_ESCALONAMENTO

\* Lines 1329-1337: the model of a task whose result was not stored: the
\* escalation model when the worker returned without HTML because of
\* MAX_TOKENS, else the model it had.
ModelForRetry(model_to_use, ret) ==
    IF ret.kind = "returned" /\ ~HasHtml(ret.html_body)
       /\ ret.finish_reason = FINISH_REASON_MAX_TOKENS
    THEN MODELO_ESCALONAMENTO ELSE model_to_use

\* Lines 1318-1347: as_completed yields a finished future; its result is
\* stored in the buffer or the task is queued for the next round.
GenHarvest(k) ==
    /\ pc = "gen_as_completed"
    /\ k \in future_to_task_info \ gen_harvested
    /\ gen_task[k].st = "done"
    /\ IF cancel_event
       THEN /\ pc' = "gen_join"
            /\ UNCHANGED <<gen_harvested, completed_in_this_attempt,
                           temp_generated_html_results, slot_writes,
                           tasks_for_html_generation, failed_tasks_for_next_round>>
       ELSE LET ret == gen_task[k].ret
                original_task_info == tasks_for_html_generation[k]
                idx_for_assignment ==
                    IndexForAssignment(original_task_info, ret,
                                       completed_in_this_attempt)
                stored == ret.kind = "returned" /\ HasHtml(ret.html_body)
                             /\ idx_for_assignment + 1
                                  \in 1..Len(temp_generated_html_results)
            IN /\ gen_harvested' = gen_harvested \cup {k}
               /\ completed_in_this_attempt' = completed_in_this_attempt + 1
               /\ IF stored
                  THEN /\ temp_generated_html_results' =
                             [temp_generated_html_results EXCEPT
                                 ![idx_for_assignment + 1] =
                                     [none |-> FALSE,
                                      page_num_in_doc |-> ret.page_num,
                                      body |-> ret.html_body]]
                       /\ slot_writes' =
                             [slot_writes EXCEPT ![idx_for_assignment + 1] = Min(@ + 1, 2)]
                       /\ UNCHANGED tasks_for_html_generation
                  ELSE /\ tasks_for_html_generation' =
                             [tasks_for_html_generation EXCEPT
                                 ![k].model_to_use = ModelForRetry(@, ret)]
                       /\ UNCHANGED <<temp_generated_html_results, slot_writes>>
               /\ failed_tasks_for_next_round' =
                     GenFailedAfter(failed_tasks_for_next_round, k, stored, ret)
               /\ pc' = IF ret.kind = "OperationCancelledError"
                           \/ gen_harvested' = future_to_task_info
                        THEN "gen_join" ELSE "gen_as_completed"
    /\ UNCHANGED <<exc, cancel_event, api_errors, config_vars, front_vars, temp_image_dir,
                   selected_pages_0_indexed, image_paths, uploaded_files_map,
                   upload_vars, remote_vars, cleanup_runs, cleanup_warnings, cleanup_todo,
                   completion_calls, history_vars, gen_attempt,
                   current_html_tasks_for_retry_phase, future_to_task_info,
                   gen_queue, gen_task, merged_html, html_returned>>

\* Line 1312 (exit of the with block), then lines 1349-1350.
GenJoin ==
    /\ pc = "gen_join"
    /\ ExecutorDrained(gen_task, future_to_task_info)
    /\ current_html_tasks_for_retry_phase' =
          NextRoundTasks(failed_tasks_for_next_round,
                         [i \in 1..Len(tasks_for_html_generation) |-> i])
    /\ IF current_html_tasks_for_retry_phase' = <<>> \/ cancel_event
       THEN pc' = "after_generation" /\ UNCHANGED gen_attempt
       ELSE pc' = "gen_loop" /\ gen_attempt' = gen_attempt + 1
    /\ UNCHANGED <<exc, cancel_event, api_errors, config_vars, front_vars, temp_image_dir,
                   selected_pages_0_indexed, image_paths, uploaded_files_map,
                   upload_vars, remote_vars, cleanup_runs, cleanup_warnings, cleanup_todo,
                   completion_calls, history_vars, tasks_for_html_generation,
                   temp_generated_html_results, failed_tasks_for_next_round,
                   future_to_task_info, gen_queue, gen_harvested,
                   completed_in_this_attempt, gen_task, merged_html, slot_writes,
                   html_returned>>

\* The result buffer as it is, None entries included.
UnfilteredContentList(results) == results

\* Line 1354: the results that are not None, in list order.
GeneratedContentList(results) == SelectSeq(results, LAMBDA res : ~res.none)

\* Lines 1352-1363; the locals of the round loop are not read again.
\* A run that goes on to the merge without looking at the cancel event.
AfterRoundsWithoutCancelCheck(cancelled, content_list) ==
    IF content_list = <<>> THEN "Exception" ELSE "merge"

\* Lines 1352 and 1362: what follows the generation rounds.
AfterRounds(cancelled, content_list) ==
    IF cancelled THEN "OperationCancelledError"
    ELSE IF content_list = <<>> THEN "Exception"
    ELSE "merge"

AfterGeneration ==
    /\ pc = "after_generation"
    /\ LET outcome == AfterRounds(cancel_event,
                                  GeneratedContentList(temp_generated_html_results))
       IN IF outcome = "merge" THEN pc' = "merge" /\ exc' = exc ELSE Raise(outcome)
    /\ gen_attempt' = 0
    /\ current_html_tasks_for_retry_phase' = <<>>
    /\ failed_tasks_for_next_round' = <<>>
    /\ future_to_task_info' = {}
    /\ gen_queue' = <<>>
    /\ gen_harvested' = {}
    /\ completed_in_this_attempt' = 0
    /\ gen_task' = [k \in TaskRefs |-> Forget(gen_task[k], IdleGenTask)]
    /\ UNCHANGED <<cancel_event, api_errors, config_vars, front_vars, temp_image_dir,
                   selected_pages_0_indexed, image_paths, uploaded_files_map,
                   upload_vars, remote_vars, cleanup_runs, cleanup_warnings, cleanup_todo,
                   completion_calls, history_vars, tasks_for_html_generation,
                   temp_generated_html_results, merged_html, slot_writes,
                   html_returned>>

Separator == [kind |-> "hr", page |-> 0, body |-> NoFile, placeholder |-> FALSE]

\* create_merged_html_with_accessibility, lines 1148-1173: the <main> element,
\* one article per entry with a separator before every entry but the first;
\* an entry without body is rendered as a placeholder paragraph (line 1158).
RECURSIVE MergedMain(_)
MergedMain(content_list) ==
    IF content_list = <<>> THEN <<>>
    ELSE LET i == Len(content_list)
             content_data == content_list[i]
             article == [kind |-> "article", page |-> content_data.page_num_in_doc,
                         body |-> content_data.body,
                         placeholder |-> ~HasHtml(content_data.body)]
         IN MergedMain(SubSeq(content_list, 1, i - 1))
               \o (IF i > 1 THEN <<Separator>> ELSE <<>>) \o <<article>>

\* Lines 1367-1375: the merge; writing the file may fail with IOError (line 1182).
\* A merge that reports success although the file could not be written.
WriteMergedSwallowsError(written) == "True"

\* Lines 1176-1182: the file is written and True returned, or the error of
\* the write is raised as IOError.
WriteMerged(written) == IF written THEN "True" ELSE "IOError"

Merge ==
    /\ pc = "merge"
    /\ \E written \in BOOLEAN :
          IF WriteMerged(written) = "True"
          THEN /\ merged_html' =
                     IF written
                     THEN MergedMain(GeneratedContentList(temp_generated_html_results))
                     ELSE merged_html
               /\ pc' = "complete"
               /\ exc' = exc
          ELSE /\ Raise(WriteMerged(written))
               /\ UNCHANGED merged_html
    /\ UNCHANGED <<cancel_event, api_errors, config_vars, front_vars, temp_image_dir,
                   selected_pages_0_indexed, image_paths, uploaded_files_map,
                   upload_vars, remote_vars, cleanup_runs, cleanup_warnings, cleanup_todo,
                   completion_calls, history_vars, tasks_for_html_generation,
                   temp_generated_html_results, gen_attempt,
                   current_html_tasks_for_retry_phase, failed_tasks_for_next_round,
                   future_to_task_info, gen_queue, gen_harvested,
                   completed_in_this_attempt, gen_task, slot_writes, html_returned>>

\* Lines 1377-1380.
Complete ==
    /\ pc = "complete"
    /\ completion_calls' =
          Append(completion_calls,
                 CompletionArgs(TRUE, OutputPath(Len(GeneratedContentList(temp_generated_html_results)),
                                                 Len(tasks_for_html_generation))))
    /\ pc' = "finally"
    /\ UNCHANGED <<exc, cancel_event, api_errors, config_vars, front_vars, temp_image_dir,
                   selected_pages_0_indexed, image_paths, uploaded_files_map,
                   upload_vars, remote_vars, cleanup_runs, cleanup_warnings, cleanup_todo,
                   history_vars, gen_vars>>

(* ------------------- generate_html_for_image_task --------------------- *)

GenRunning == {k \in TaskRefs : gen_task[k].st \in RunningStates}

\* The worker has returned a tuple or raised; its locals are gone.
GenTaskDone(t, ret) ==
    [IdleGenTask EXCEPT !.st = "done", !.ret = ret, !.round = t.round,
                        !.model_name = t.model_name]

\* The tuple of lines 459, 489 and 492.
ReturnTuple(info, html_body, finish_reason) ==
    [kind |-> "returned", returned_idx |-> info.original_idx,
     page_num |-> info.page_num_in_doc, html_body |-> html_body,
     finish_reason |-> finish_reason]

\* An exception that leaves the worker through its future.
RaisedFromTask(e) == [NoReturn EXCEPT !.kind = e]

\* Lines 456-459: an exception of gemini_api_call_with_retry becomes a tuple
\* without HTML and without finish reason.
GenCatch(t, info) ==
    IF t.st = "raised" THEN GenTaskDone(t, ReturnTuple(info, NoFile, "None")) ELSE t

\* Lines 436-443: the generation config a worker builds for its model
\* (temperature in tenths).
GenerationConfig(model_name) ==
    [temperature_tenths |-> 1,
     max_output_tokens |-> IF model_name = MODELO_ESCALONAMENTO
                           THEN LIMITE_TOKENS_ESCALONAMENTO ELSE Unset]

\* A pool thread takes the next queued task; line 415 is its first statement.
GenTaskStart(k) ==
    /\ gen_queue # <<>>
    /\ Head(gen_queue) = k
    /\ Cardinality(GenRunning) < num_generate_workers
    /\ gen_queue' = Tail(gen_queue)
    /\ gen_task' = [gen_task EXCEPT ![k] =
                       IF cancel_event
                       THEN GenTaskDone(@, RaisedFromTask("OperationCancelledError"))
                       ELSE BeginApiCall(@, "generate_content")]
    /\ UNCHANGED <<pc, exc, cancel_event, api_errors, config_vars, front_vars, temp_image_dir,
                   selected_pages_0_indexed, image_paths, uploaded_files_map,
                   upload_vars, remote_vars, cleanup_runs, cleanup_warnings, cleanup_todo,
                   completion_calls, history_vars, tasks_for_html_generation,
                   temp_generated_html_results, gen_attempt,
                   current_html_tasks_for_retry_phase, failed_tasks_for_next_round,
                   future_to_task_info, gen_harvested, completed_in_this_attempt,
                   merged_html, slot_writes, html_returned>>

\* gemini_api_call_with_retry line 90, inside the try block of line 453.
GenRetryCheck(k) ==
    /\ gen_task[k].st = "check"
    /\ gen_task' = [gen_task EXCEPT ![k] =
                       GenCatch(RetryLoopEntry(@, cancel_event),
                                tasks_for_html_generation[k])]
    /\ UNCHANGED <<pc, exc, cancel_event, api_errors, config_vars, front_vars, temp_image_dir,
                   selected_pages_0_indexed, image_paths, uploaded_files_map,
                   upload_vars, remote_vars, cleanup_runs, cleanup_warnings, cleanup_todo,
                   completion_calls, history_vars, tasks_for_html_generation,
                   temp_generated_html_results, gen_attempt,
                   current_html_tasks_for_retry_phase, failed_tasks_for_next_round,
                   future_to_task_info, gen_queue, gen_harvested,
                   completed_in_this_attempt, merged_html, slot_writes,
                   html_returned>>

\* gemini_api_call_with_retry lines 100-103, inside the try block of line 453.
GenBackoff(k) ==
    /\ gen_task[k].st = "backoff"
    /\ gen_task' = [gen_task EXCEPT ![k] =
                       GenCatch(BackoffStep(@, cancel_event),
                                tasks_for_html_generation[k])]
    /\ UNCHANGED <<pc, exc, cancel_event, api_errors, config_vars, front_vars, temp_image_dir,
                   selected_pages_0_indexed, image_paths, uploaded_files_map,
                   upload_vars, remote_vars, cleanup_runs, cleanup_warnings, cleanup_todo,
                   completion_calls, history_vars, tasks_for_html_generation,
                   temp_generated_html_results, gen_attempt,
                   current_html_tasks_for_retry_phase, failed_tasks_for_next_round,
                   future_to_task_info, gen_queue, gen_harvested,
                   completed_in_this_attempt, merged_html, slot_writes,
                   html_returned>>

\* What generate_content can answer: extractable HTML; text cut at the token
\* limit from which no HTML is extracted; other text without HTML; a response
\* without candidates or without readable text.
Responses == {"html", "truncated", "no_html", "unreadable"}

\* Line 92 with api_function = model.generate_content (lines 454-455).
GenerateContentCall(k) ==
    /\ gen_task[k].st = "call"
    /\ \E outcome \in Responses \cup ApiExceptions :
          IF outcome \in Responses
          THEN /\ gen_task' = [gen_task EXCEPT ![k] =
                                  [@ EXCEPT !.st = "after_call", !.response = outcome]]
               /\ UNCHANGED <<api_errors, quota_exhausted>>
          ELSE /\ api_errors < api_error_budget
               /\ api_errors' = api_errors + 1
               /\ quota_exhausted' = (quota_exhausted \/ outcome = "ResourceExhausted")
               /\ gen_task' = [gen_task EXCEPT ![k] =
                                  GenCatch(IF outcome = "Retryable"
                                           THEN RetryableError(@) ELSE FatalError(@),
                                           tasks_for_html_generation[k])]
    /\ UNCHANGED <<pc, exc, cancel_event, config_vars, front_vars, temp_image_dir,
                   selected_pages_0_indexed, image_paths, uploaded_files_map,
                   upload_vars, remote_vars, cleanup_runs, cleanup_warnings, cleanup_todo,
                   completion_calls, cancelled_at, files_at_cancel,
                   in_call_at_cancel, late_upload_calls, tasks_for_html_generation,
                   temp_generated_html_results, gen_attempt,
                   current_html_tasks_for_retry_phase, failed_tasks_for_next_round,
                   future_to_task_info, gen_queue, gen_harvested,
                   completed_in_this_attempt, merged_html, slot_writes,
                   html_returned>>

\* Lines 461-492: the cancellation check after the call, then the response
\* is turned into the returned tuple (or an exception escapes on line 467/488).
GenAfterCall(k) ==
    /\ gen_task[k].st = "after_call"
    /\ LET info == tasks_for_html_generation[k]
           t == gen_task[k]
           ret == IF cancel_event THEN RaisedFromTask("OperationCancelledError")
                  ELSE IF t.response = "html"
                  THEN ReturnTuple(info, info.file_api_object, "STOP")
                  ELSE IF t.response = "truncated"
                  THEN ReturnTuple(info, NoFile, FINISH_REASON_MAX_TOKENS)
                  ELSE IF t.response = "no_html"
                  THEN ReturnTuple(info, NoFile, "STOP")
                  ELSE RaisedFromTask("Exception")
       IN /\ gen_task' = [gen_task EXCEPT ![k] = GenTaskDone(t, ret)]
          /\ html_returned' =
                IF ret.kind = "returned" /\ HasHtml(ret.html_body)
                THEN html_returned \cup {k} ELSE html_returned
    /\ UNCHANGED <<pc, exc, cancel_event, api_errors, config_vars, front_vars, temp_image_dir,
                   selected_pages_0_indexed, image_paths, uploaded_files_map,
                   upload_vars, remote_vars, cleanup_runs, cleanup_warnings, cleanup_todo,
                   completion_calls, history_vars, tasks_for_html_generation,
                   temp_generated_html_results, gen_attempt,
                   current_html_tasks_for_retry_phase, failed_tasks_for_next_round,
                   future_to_task_info, gen_queue, gen_harvested,
                   completed_in_this_attempt, merged_html, slot_writes>>

(* -------------------- process_pdf_web: the ending --------------------- *)

\* An except clause after which the function returns without a finally clause.
ExceptClauseWithoutFinally ==
    /\ pc = "except"
    /\ completion_calls' = Append(completion_calls, CompletionArgs(FALSE, exc))
    /\ pc' = "done"
    /\ exc' = "none"
    /\ UNCHANGED <<cancel_event, api_errors, config_vars, front_vars, temp_image_dir,
                   selected_pages_0_indexed, image_paths, uploaded_files_map,
                   upload_vars, remote_vars, cleanup_runs, cleanup_warnings, cleanup_todo,
                   history_vars, gen_vars>>

\* Lines 1382-1386: every exception is reported through completion_callback.
ExceptClause ==
    /\ pc = "except"
    /\ completion_calls' = Append(completion_calls, CompletionArgs(FALSE, exc))
    /\ pc' = "finally"
    /\ exc' = "none"
    /\ UNCHANGED <<cancel_event, api_errors, config_vars, front_vars, temp_image_dir,
                   selected_pages_0_indexed, image_paths, uploaded_files_map,
                   upload_vars, remote_vars, cleanup_runs, cleanup_warnings, cleanup_todo,
                   history_vars, gen_vars>>

\* dict.values() of a dict-or-None value that is truthy, else nothing.
FilesToClean(d) ==
    IF Truthy(d) THEN [i \in 1..Len(d.items) |-> d.items[i].file] ELSE <<>>

\* What genai.delete_file does in the finally clause: it deletes the file or
\* raises (NotFound for a name that is gone, or any other API exception).
DeleteOutcomes == {"deleted", "NotFound", "Exception"}

\* A deletion loop that stops at the first exception.
DeleteLoopAbortsOnFailure(outcome, todo) ==
    IF outcome = "deleted" THEN Tail(todo) ELSE <<>>

\* Lines 1400-1405: the try/except inside the loop; whatever delete_file
\* does, the loop goes on with the next value of the dict.
DeleteLoopAfter(outcome, todo) == Tail(todo)

\* Lines 1388-1398: the finally clause starts; the local directory goes first
\* (rmtree may fail, which is only logged).
CleanupLocal ==
    /\ pc = "finally"
    /\ cleanup_runs' = cleanup_runs + 1
    /\ \E removed \in BOOLEAN :
          temp_image_dir' = IF temp_image_dir /\ removed THEN FALSE ELSE temp_image_dir
    /\ cleanup_warnings' = {}
    /\ cleanup_todo' = FilesToClean(uploaded_files_map)
    /\ pc' = "cleanup_remote"
    /\ UNCHANGED <<exc, cancel_event, api_errors, config_vars, front_vars,
                   selected_pages_0_indexed, image_paths, uploaded_files_map,
                   upload_vars, remote_vars, completion_calls, history_vars, gen_vars>>

\* Lines 1399-1405: one iteration of the remote deletion loop.
CleanupRemoteDelete ==
    /\ pc = "cleanup_remote"
    /\ cleanup_todo # <<>>
    /\ delete_calls' = DeleteFile(delete_calls, Head(cleanup_todo))
    /\ \E outcome \in DeleteOutcomes :
          /\ IF outcome = "deleted"
             THEN UNCHANGED <<api_errors, cleanup_warnings>>
             ELSE /\ api_errors < api_error_budget
                  /\ api_errors' = api_errors + 1
                  /\ cleanup_warnings' = cleanup_warnings \cup {Head(cleanup_todo)}
          /\ cleanup_todo' = DeleteLoopAfter(outcome, cleanup_todo)
    /\ UNCHANGED <<pc, exc, cancel_event, config_vars, front_vars, temp_image_dir,
                   selected_pages_0_indexed, image_paths, uploaded_files_map,
                   upload_vars, remote_files, cleanup_runs, completion_calls,
                   history_vars, gen_vars>>

\* Lines 1407-1408.
CleanupFinish ==
    /\ pc = "cleanup_remote"
    /\ cleanup_todo = <<>>
    /\ pc' = "done"
    /\ UNCHANGED <<exc, cancel_event, api_errors, config_vars, front_vars, temp_image_dir,
                   selected_pages_0_indexed, image_paths, uploaded_files_map,
                   upload_vars, remote_vars, cleanup_runs, cleanup_warnings, cleanup_todo,
                   completion_calls, history_vars, gen_vars>>

(* --------------------------- specification ---------------------------- *)

\* A step of the pipeline thread or of one of its workers.
RunStep ==
    \/ Configure
    \/ Rasterize
    \/ AfterRasterize
    \/ UploadRoundBegin
    \/ \E p \in AllPaths : UploadTaskStart(p)
    \/ \E p \in AllPaths : UploadRetryCheck(p)
    \/ \E p \in AllPaths : UploadBackoff(p)
    \/ \E p \in AllPaths : UploadFileCall(p)
    \/ \E p \in AllPaths : UploadPoll(p)
    \/ \E p \in AllPaths : GetFileCall(p)
    \/ \E p \in AllPaths : UploadHarvest(p)
    \/ UploadJoin
    \/ UploadReturn
    \/ AfterUpload
    \/ PrepareGeneration
    \/ GenRoundBegin
    \/ \E k \in TaskRefs : GenTaskStart(k)
    \/ \E k \in TaskRefs : GenRetryCheck(k)
    \/ \E k \in TaskRefs : GenBackoff(k)
    \/ \E k \in TaskRefs : GenerateContentCall(k)
    \/ \E k \in TaskRefs : GenAfterCall(k)
    \/ \E k \in TaskRefs : GenHarvest(k)
    \/ GenJoin
    \/ AfterGeneration
    \/ Merge
    \/ Complete
    \/ ExceptClause
    \/ CleanupLocal
    \/ CleanupRemoteDelete
    \/ CleanupFinish

Next ==
    \/ RequestCancel
    \/ RunStep

Spec == Init /\ [][Next]_vars


(* ------------- process_pdf_thread (desktop): the ending --------------- *)

\* The state of process_pdf_thread when its generation rounds are over
\* (line 954): some pages were uploaded and attempted, any subset of the
\* slots is populated, the cancel event may be set.
InitThread ==
    \E pages \in (SUBSET (0..(NPages - 1))) \ {{}} :
    \E uploaded \in (SUBSET pages) \ {{}} :
    \E populated \in SUBSET (1..Cardinality(uploaded)) :
       LET paths == [i \in 1..Cardinality(pages) |-> ImagePath(SortedSeq(pages)[i])]
           items == [i \in 1..Cardinality(uploaded) |->
                        [path |-> ImagePath(SortedSeq(uploaded)[i]),
                         file |-> RemoteName(ImagePath(SortedSeq(uploaded)[i]), 0)]]
           tasks == BuildTasks(items, DEFAULT_GEMINI_MODEL)
       IN /\ pc = "thread_after_generation"
          /\ exc = "none"
          /\ cancel_event \in BOOLEAN
          /\ api_errors = 0
          /\ api_error_budget = MaxApiErrors
          /\ num_upload_workers \in {DesktopWorkers(v) : v \in WorkerFormValues}
          /\ num_generate_workers \in {DesktopWorkers(v) : v \in WorkerFormValues}
          /\ page_range = RunRangeString(pages)
          /\ total_doc_pages = NPages
          /\ api_key = TRUE
          /\ temp_image_dir = TRUE
          /\ selected_pages_0_indexed = ParseList(SortedSeq(pages))
          /\ image_paths = paths
          /\ uploaded_files_map = PyDict(items)
          /\ up_attempt = 0
          /\ current_image_paths = <<>>
          /\ failed_in_this_attempt = <<>>
          /\ successfully_uploaded_map = <<>>
          /\ future_to_path = {}
          /\ up_queue = <<>>
          /\ up_harvested = {}
          /\ up_task = [p \in AllPaths |-> IdleUploadTask]
          /\ tasks_for_html_generation = tasks
          /\ temp_generated_html_results =
                [i \in 1..Len(tasks) |->
                    IF i \in populated
                    THEN [none |-> FALSE,
                          page_num_in_doc |-> tasks[i].page_num_in_doc,
                          body |-> tasks[i].file_api_object]
                    ELSE NoResult]
          /\ gen_attempt = 0
          /\ current_html_tasks_for_retry_phase = <<>>
          /\ failed_tasks_for_next_round = <<>>
          /\ future_to_task_info = {}
          /\ gen_queue = <<>>
          /\ gen_harvested = {}
          /\ completed_in_this_attempt = 0
          /\ gen_task = [k \in TaskRefs |-> IdleGenTask]
          /\ merged_html = <<>>
          /\ slot_writes = [k \in TaskRefs |-> IF k \in populated THEN 1 ELSE 0]
          /\ html_returned = populated
          /\ remote_files = {items[i].file : i \in 1..Len(items)}
          /\ delete_calls = [f \in AllRemoteNames |-> 0]
          /\ cleanup_runs = 0
          /\ cleanup_warnings = {}
          /\ cleanup_todo = <<>>
          /\ completion_calls = <<>>
          /\ cancelled_at = IF cancel_event THEN "generation" ELSE "never"
          /\ files_at_cancel = {}
          /\ in_call_at_cancel = {}
          /\ late_upload_calls = [p \in AllPaths |-> 0]
          /\ quota_exhausted = FALSE
          /\ FrontIdle

\* What only the ending of process_pdf_thread leaves alone.
thread_locals ==
    <<cancel_event, config_vars, front_vars, selected_pages_0_indexed,
      image_paths, uploaded_files_map, upload_vars, remote_files, history_vars,
      tasks_for_html_generation, temp_generated_html_results, gen_attempt,
      current_html_tasks_for_retry_phase, failed_tasks_for_next_round,
      future_to_task_info, gen_queue, gen_harvested, completed_in_this_attempt,
      gen_task, slot_writes, html_returned>>

thread_frame == <<api_errors, thread_locals>>

\* An exception of process_pdf_thread travels to its except clauses.
RaiseInThread(e) ==
    /\ pc' = "thread_except"
    /\ exc' = e

\* part_000 lines 956-980: the cancellation check after the rounds; zero
\* generated pages only produce a warning.
ThreadAfterGeneration ==
    /\ pc = "thread_after_generation"
    /\ IF cancel_event THEN RaiseInThread("OperationCancelledError")
       ELSE pc' = "thread_merge" /\ exc' = exc
    /\ UNCHANGED <<thread_frame, temp_image_dir, delete_calls, cleanup_runs, cleanup_warnings,
                   cleanup_todo, completion_calls, merged_html>>

\* part_000 lines 425-426 and 765-770: the desktop merge returns False for
\* an empty list, else it writes the document or re-raises the write error.
ThreadMergeReturns(content_list, written) ==
    IF content_list = <<>> THEN "False" ELSE IF written THEN "True" ELSE "raise"

\* part_000 lines 983-990: the merge; a False result with an empty list is
\* only logged.
ThreadMerge ==
    /\ pc = "thread_merge"
    /\ \E written \in BOOLEAN :
          LET content_list == GeneratedContentList(temp_generated_html_results)
              success_merge == ThreadMergeReturns(content_list, written)
          IN IF success_merge = "raise" \/ (success_merge = "False" /\ content_list # <<>>)
             THEN RaiseInThread("Exception") /\ UNCHANGED merged_html
             ELSE /\ merged_html' = IF success_merge = "True"
                                    THEN MergedMain(content_list) ELSE merged_html
                  /\ pc' = "thread_complete"
                  /\ exc' = exc
    /\ UNCHANGED <<thread_frame, temp_image_dir, delete_calls, cleanup_runs, cleanup_warnings,
                   cleanup_todo, completion_calls>>

\* part_000 lines 962 and 971-978: the locator of the desktop output, with
\* _parcial before _accessible when some but not all pages were generated.
ThreadOutputPath(num_successfully_generated, total_attempted) ==
    IF num_successfully_generated > 0 /\ num_successfully_generated < total_attempted
    THEN "base_parcial_accessible.html" ELSE "initial_output_html_path_base"

\* part_000 lines 996-1003: the report of the run that reached the end of
\* the try block.
ThreadComplete ==
    /\ pc = "thread_complete"
    /\ completion_calls' =
          Append(completion_calls,
                 CompletionArgs(TRUE,
                    ThreadOutputPath(Len(GeneratedContentList(temp_generated_html_results)),
                                     Len(tasks_for_html_generation))))
    /\ pc' = "thread_finally"
    /\ UNCHANGED <<thread_frame, exc, temp_image_dir, delete_calls, cleanup_runs, cleanup_warnings,
                   cleanup_todo, merged_html>>

\* part_000 lines 1005-1015: every except clause reports a failure.
ThreadExceptClause ==
    /\ pc = "thread_except"
    /\ completion_calls' = Append(completion_calls, CompletionArgs(FALSE, exc))
    /\ pc' = "thread_finally"
    /\ exc' = "none"
    /\ UNCHANGED <<thread_frame, temp_image_dir, delete_calls, cleanup_runs, cleanup_warnings,
                   cleanup_todo, merged_html>>

\* part_000 lines 1016-1036: the finally clause removes the local images and
\* the temporary directory (failures are logged).
ThreadCleanupLocal ==
    /\ pc = "thread_finally"
    /\ cleanup_runs' = cleanup_runs + 1
    /\ \E removed \in BOOLEAN :
          temp_image_dir' = IF temp_image_dir /\ removed THEN FALSE ELSE temp_image_dir
    /\ cleanup_warnings' = {}
    /\ cleanup_todo' = FilesToClean(uploaded_files_map)
    /\ pc' = "thread_cleanup_remote"
    /\ UNCHANGED <<thread_frame, exc, delete_calls, completion_calls, merged_html>>

\* part_000 lines 1041-1046: one iteration of the remote deletion loop.
ThreadCleanupRemoteDelete ==
    /\ pc = "thread_cleanup_remote"
    /\ cleanup_todo # <<>>
    /\ delete_calls' = DeleteFile(delete_calls, Head(cleanup_todo))
    /\ \E outcome \in DeleteOutcomes :
          /\ IF outcome = "deleted"
             THEN UNCHANGED <<api_errors, cleanup_warnings>>
             ELSE /\ api_errors < api_error_budget
                  /\ api_errors' = api_errors + 1
                  /\ cleanup_warnings' = cleanup_warnings \cup {Head(cleanup_todo)}
          /\ cleanup_todo' = DeleteLoopAfter(outcome, cleanup_todo)
    /\ UNCHANGED <<thread_locals, pc, exc, temp_image_dir, cleanup_runs,
                   completion_calls, merged_html>>

\* part_000 lines 1047-1051.
ThreadCleanupFinish ==
    /\ pc = "thread_cleanup_remote"
    /\ cleanup_todo = <<>>
    /\ pc' = "done"
    /\ UNCHANGED <<thread_frame, exc, temp_image_dir, delete_calls, cleanup_runs, cleanup_warnings,
                   cleanup_todo, completion_calls, merged_html>>

NextThread ==
    \/ RequestCancel
    \/ ThreadAfterGeneration
    \/ ThreadMerge
    \/ ThreadComplete
    \/ ThreadExceptClause
    \/ ThreadCleanupLocal
    \/ ThreadCleanupRemoteDelete
    \/ ThreadCleanupFinish

SpecThread == InitThread /\ [][NextThread]_vars

(* ------------- gemini_api_call_with_retry under many errors ----------- *)

\* A run on the first page only, with one worker per pool, in which the
\* remote API may raise often enough to exhaust the retries of one call.
InitRetry ==
    /\ pc = "start"
    /\ exc = "none"
    /\ cancel_event = FALSE
    /\ api_errors = 0
    /\ api_error_budget = MAX_RETRIES_PER_CALL + 2
    /\ num_upload_workers = 1
    /\ num_generate_workers = 1
    /\ page_range = <<"1">>
    /\ total_doc_pages = NPages
    /\ api_key = TRUE
    /\ temp_image_dir = FALSE
    /\ selected_pages_0_indexed = ParseList(<<>>)
    /\ image_paths = <<>>
    /\ uploaded_files_map = PyDict(<<>>)
    /\ up_attempt = 0
    /\ current_image_paths = <<>>
    /\ failed_in_this_attempt = <<>>
    /\ successfully_uploaded_map = <<>>
    /\ future_to_path = {}
    /\ up_queue = <<>>
    /\ up_harvested = {}
    /\ up_task = [p \in AllPaths |-> IdleUploadTask]
    /\ tasks_for_html_generation = <<>>
    /\ temp_generated_html_results = <<>>
    /\ gen_attempt = 0
    /\ current_html_tasks_for_retry_phase = <<>>
    /\ failed_tasks_for_next_round = <<>>
    /\ future_to_task_info = {}
    /\ gen_queue = <<>>
    /\ gen_harvested = {}
    /\ completed_in_this_attempt = 0
    /\ gen_task = [k \in TaskRefs |-> IdleGenTask]
    /\ merged_html = <<>>
    /\ slot_writes = [k \in TaskRefs |-> 0]
    /\ html_returned = {}
    /\ remote_files = {}
    /\ delete_calls = [f \in AllRemoteNames |-> 0]
    /\ cleanup_runs = 0
    /\ cleanup_warnings = {}
    /\ cleanup_todo = <<>>
    /\ completion_calls = <<>>
    /\ cancelled_at = "never"
    /\ files_at_cancel = {}
    /\ in_call_at_cancel = {}
    /\ late_upload_calls = [p \in AllPaths |-> 0]
    /\ quota_exhausted = FALSE
    /\ FrontIdle

SpecRetry == InitRetry /\ [][Next]_vars

\* The same run when every pool thread and the main thread keep running:
\* time.sleep(1) returns and every remote call answers or raises.
SpecRetryFair == SpecRetry /\ WF_vars(Next)

(* ------------------ database.py: the row of a task -------------------- *)

\* The storage mode of the deployment (src/processing.py line 42).
MODE == "LOCAL"

\* create_task: the row as the upload route inserts it.
create_task ==
    [is_complete |-> 0, success |-> "NULL", status |-> "Iniciando...",
     output_filename |-> "NULL"]

\* src/app.py lines 154-160: the keys of output_info that the completion
\* callback of the route fills in.
OutputInfo(success) ==
    IF ~success THEN {}
    ELSE IF MODE = "LOCAL" THEN {"output_path", "output_filename"}
    ELSE {"output_s3_key"}

\* update_task_completion: the UPDATE reads output_info[...] for its
\* parameters, which raises KeyError on a key the dict does not have; the
\* row is then left as it was.
update_task_completion(row, success, output_info) ==
    LET needed == IF MODE = "LOCAL" THEN {"output_path", "output_filename"}
                  ELSE {"output_s3_key"}
    IN IF needed \subseteq output_info
       THEN [row EXCEPT !.is_complete = 1,
                        !.success = IF success THEN 1 ELSE 0,
                        !.status = IF success THEN "Concluído com Sucesso!" ELSE "Falha",
                        !.output_filename = IF MODE = "LOCAL" THEN "output_filename"
                                            ELSE @]
       ELSE row

\* The row of the task after the completion_callback calls made so far.
RECURSIVE RowAfter(_, _)
RowAfter(row, calls) ==
    IF calls = <<>> THEN row
    ELSE RowAfter(update_task_completion(row, Head(calls).success,
                                         OutputInfo(Head(calls).success)),
                  Tail(calls))

TaskRow == RowAfter(create_task, completion_calls)

(* ------------------- requests outside a conversion -------------------- *)

\* No conversion is running: the state of the pipeline while the front end
\* serves another request.
PipelineIdle ==
    /\ cancel_event = FALSE
    /\ api_errors = 0
    /\ api_error_budget = MaxApiErrors
    /\ num_upload_workers = 1
    /\ num_generate_workers = 1
    /\ page_range = <<>>
    /\ total_doc_pages = 0
    /\ api_key = TRUE
    /\ temp_image_dir = FALSE
    /\ selected_pages_0_indexed = ParseList(<<>>)
    /\ image_paths = <<>>
    /\ uploaded_files_map = PyDict(<<>>)
    /\ up_attempt = 0
    /\ current_image_paths = <<>>
    /\ failed_in_this_attempt = <<>>
    /\ successfully_uploaded_map = <<>>
    /\ future_to_path = {}
    /\ up_queue = <<>>
    /\ up_harvested = {}
    /\ up_task = [p \in AllPaths |-> IdleUploadTask]
    /\ tasks_for_html_generation = <<>>
    /\ temp_generated_html_results = <<>>
    /\ gen_attempt = 0
    /\ current_html_tasks_for_retry_phase = <<>>
    /\ failed_tasks_for_next_round = <<>>
    /\ future_to_task_info = {}
    /\ gen_queue = <<>>
    /\ gen_harvested = {}
    /\ completed_in_this_attempt = 0
    /\ gen_task = [k \in TaskRefs |-> IdleGenTask]
    /\ merged_html = <<>>
    /\ slot_writes = [k \in TaskRefs |-> 0]
    /\ html_returned = {}
    /\ remote_files = {}
    /\ delete_calls = [f \in AllRemoteNames |-> 0]
    /\ cleanup_runs = 0
    /\ cleanup_warnings = {}
    /\ cleanup_todo = <<>>
    /\ completion_calls = <<>>
    /\ cancelled_at = "never"
    /\ files_at_cancel = {}
    /\ in_call_at_cancel = {}
    /\ late_upload_calls = [p \in AllPaths |-> 0]
    /\ quota_exhausted = FALSE

\* The pipeline variables other than the position, the exception and the
\* cancel event.
pipeline_rest ==
    <<api_errors, temp_image_dir, selected_pages_0_indexed, image_paths,
      uploaded_files_map, upload_vars, remote_vars, cleanup_runs,
      cleanup_warnings, cleanup_todo, completion_calls, history_vars, gen_vars,
      config_vars>>

pipeline_frame == <<cancel_event, pipeline_rest>>

(* ----------------------------- patcher.py ----------------------------- *)

\* A parsed file: the main container found by line 56 ("main", "body", or
\* "none" for a fragment) and its <article class='page-content'> elements in
\* document order; id = <<>> stands for a missing or empty id attribute, hr
\* tells whether the previous sibling is <hr class="page-separator">.
Soup(container, articles) == [container |-> container, articles |-> articles]

PageIds ==
    {<<>>, <<"p", "-", "1">>, <<"p", "-", "2">>, <<"p", "-", "1", "0">>,
     <<"q", "-", "2">>, <<"p", "-", "x">>}

\* The files with at most n page articles; as create_merged_html writes
\* them, every article but the first follows a separator.
Soups(file, containers, n) ==
    {Soup(c, [i \in 1..Len(ids) |->
                 [id |-> ids[i], hr |-> (i > 1), content |-> <<file, i>>]]) :
        c \in containers, ids \in UNION {[1..k -> PageIds] : k \in 0..n}}

\* paginas[page_id] = value on a dict kept in insertion order.
DictSet(d, key, value) ==
    IF \E i \in 1..Len(d) : d[i].key = key
    THEN [i \in 1..Len(d) |->
             IF d[i].key = key THEN [key |-> key, value |-> value] ELSE d[i]]
    ELSE Append(d, [key |-> key, value |-> value])

RECURSIVE ExtractPages(_, _)
ExtractPages(articles, paginas) ==
    IF articles = <<>> THEN paginas
    ELSE LET article == Head(articles)
         IN ExtractPages(Tail(articles),
                IF article.id = <<>> THEN paginas
                ELSE DictSet(paginas, article.id,
                             [hr |-> article.hr, content |-> article.content]))

\* Lines 5-32: page id -> the html of the article with its separator.
extrair_paginas(soup) == ExtractPages(soup.articles, <<>>)

\* An update that keeps the value of a key the dict already has.
RECURSIVE DictUpdateKeepingOld(_, _)
DictUpdateKeepingOld(d, other) ==
    IF other = <<>> THEN d
    ELSE DictUpdateKeepingOld(
            IF \E i \in 1..Len(d) : d[i].key = Head(other).key
            THEN d ELSE DictSet(d, Head(other).key, Head(other).value),
            Tail(other))

\* Line 47: dict.update.
RECURSIVE DictUpdate(_, _)
DictUpdate(d, other) ==
    IF other = <<>> THEN d
    ELSE DictUpdate(DictSet(d, Head(other).key, Head(other).value), Tail(other))

\* Line 52: key=lambda item: int(item[0].split('-')[-1]).
PageSortKey(item) ==
    LET parts == Split(item.key, "-") IN PyInt(parts[Len(parts)])

\* sorted(...) is stable: an item goes behind the items whose key is not
\* greater than its own.
RECURSIVE InsertByKey(_, _)
InsertByKey(sorted, item) ==
    IF sorted = <<>> THEN <<item>>
    ELSE IF PageSortKey(sorted[Len(sorted)]).value <= PageSortKey(item).value
    THEN Append(sorted, item)
    ELSE Append(InsertByKey(SubSeq(sorted, 1, Len(sorted) - 1), item),
                sorted[Len(sorted)])

RECURSIVE SortedByKey(_)
SortedByKey(items) ==
    IF items = <<>> THEN <<>>
    ELSE InsertByKey(SortedByKey(SubSeq(items, 1, Len(items) - 1)),
                     items[Len(items)])

\* What the call leaves behind before it returns or raises.
NoSoup == [raised |-> "none", soup |-> Soup("none", <<>>)]

\* Lines 34-67: the returned document, or the ValueError of int() when a
\* page id does not end in a number.
patch_html_files(original, corrections) ==
    LET paginas_originais ==
            DictUpdate(extrair_paginas(original), extrair_paginas(corrections))
        paginas_ordenadas == SortedByKey(paginas_originais)
    IN IF \E i \in 1..Len(paginas_originais) : ~PageSortKey(paginas_originais[i]).ok
       THEN [raised |-> "ValueError", soup |-> Soup("none", <<>>)]
       ELSE [raised |-> "none",
             soup |-> Soup(IF original.container = "none" THEN "body"
                           ELSE original.container,
                           [i \in 1..Len(paginas_ordenadas) |->
                               [id |-> paginas_ordenadas[i].key,
                                hr |-> paginas_ordenadas[i].value.hr,
                                content |-> paginas_ordenadas[i].value.content]])]

\* src/app.py lines 319-323: the route has read two files.
InitPatch ==
    /\ PipelineIdle
    /\ pc = "patch_html_files"
    /\ exc = "none"
    /\ original_content \in Soups("original", {"main", "body", "none"}, MaxOriginalPages)
    /\ corrections_content \in Soups("corrections", {"main"}, MaxCorrectionPages)
    /\ html_final = NoSoup
    /\ FlaskIdle
    /\ GuiIdle
    /\ DbIdle

\* src/app.py line 323.
PatchHtmlFiles ==
    /\ pc = "patch_html_files"
    /\ html_final' = patch_html_files(original_content, corrections_content)
    /\ exc' = html_final'.raised
    /\ pc' = "patched"
    /\ UNCHANGED <<pipeline_frame, original_content, corrections_content, flask_vars,
                   gui_vars, db_vars>>

NextPatch == PatchHtmlFiles

SpecPatch == InitPatch /\ [][NextPatch]_vars

(* ------------------ src/flask/app.py: tasks in memory ----------------- *)

\* Lines 65-76: the entry of a new task.
NewTask ==
    [status |-> "Iniciando...", is_complete |-> FALSE, success |-> "None",
     output_path |-> "None", output_filename |-> "None",
     cancel_event |-> FALSE, known |-> TRUE]

InitFlask ==
    /\ PipelineIdle
    /\ pc = "serving"
    /\ exc = "none"
    /\ PatcherIdle
    /\ FlaskIdle
    /\ GuiIdle
    /\ DbIdle

\* Lines 40-109: POST / registers the task and starts its pipeline thread.
Index(t) ==
    /\ ~TASKS[t].known
    /\ TASKS' = [TASKS EXCEPT ![t] = NewTask]
    /\ callback' = [callback EXCEPT ![t] = [at |-> "process_pdf_web", success |-> FALSE]]
    /\ UNCHANGED <<pc, exc, pipeline_frame, patch_vars, gui_vars, db_vars, status_request,
                   cancel_request, status_response, cancel_response>>

\* The run of process_pdf_web reaches one of its completion_callback calls
\* (src/processing.py lines 1378 and 1386).
CompletionCallbackCall(t) ==
    /\ callback[t].at = "process_pdf_web"
    /\ \E success \in BOOLEAN :
          callback' = [callback EXCEPT ![t] = [at |-> "line 88", success |-> success]]
    /\ UNCHANGED <<pc, exc, pipeline_frame, patch_vars, gui_vars, db_vars, TASKS, status_request,
                   cancel_request, status_response, cancel_response>>

\* Lines 88-95: the statements of completion_callback, one at a time.
CompletionCallbackStep(t) ==
    /\ callback[t].at \in {"line 88", "line 89", "line 91", "line 92", "line 93", "line 95"}
    /\ LET at == callback[t].at
           success == callback[t].success
       IN /\ TASKS' = [TASKS EXCEPT ![t] =
                CASE at = "line 88" -> [@ EXCEPT !.is_complete = TRUE]
                  [] at = "line 89" -> [@ EXCEPT !.success = IF success THEN "True" ELSE "False"]
                  [] at = "line 91" -> [@ EXCEPT !.output_path = "output_path"]
                  [] at = "line 92" -> [@ EXCEPT !.output_filename = "output_filename"]
                  [] at = "line 93" -> [@ EXCEPT !.status = "Concluído com Sucesso!"]
                  [] at = "line 95" -> [@ EXCEPT !.status = "Falha"]]
          /\ callback' = [callback EXCEPT ![t].at =
                CASE at = "line 88" -> "line 89"
                  [] at = "line 89" -> IF success THEN "line 91" ELSE "line 95"
                  [] at = "line 91" -> "line 92"
                  [] at = "line 92" -> "line 93"
                  [] at = "line 93" -> "returned"
                  [] at = "line 95" -> "returned"]
    /\ UNCHANGED <<pc, exc, pipeline_frame, patch_vars, gui_vars, db_vars, status_request,
                   cancel_request, status_response, cancel_response>>

\* Lines 119-121: GET /status/<task_id> looks the task up.
TaskStatusBegin(t) ==
    /\ status_request.at = "idle"
    /\ IF TASKS[t].known
       THEN /\ status_request' = [task_id |-> t, at |-> "line 125"]
            /\ status_response' = [code |-> 200, task_id |-> t]
       ELSE /\ status_request' = NoRequest
            /\ status_response' = [code |-> 404, task_id |-> t]
    /\ UNCHANGED <<pc, exc, pipeline_frame, patch_vars, gui_vars, db_vars, TASKS, callback,
                   cancel_request, cancel_response>>

\* Lines 124-132: the dict of the answer is built entry by entry, each entry
\* reading the task at that moment.
TaskStatusRead ==
    /\ status_request.at \in {"line 125", "line 129", "line 130", "line 131"}
    /\ LET task == TASKS[status_request.task_id]
           at == status_request.at
       IN /\ status_response' =
                CASE at = "line 125" -> [code |-> 200, task_id |-> status_request.task_id,
                                         status |-> task.status]
                  [] at = "line 129" -> [code |-> 200, task_id |-> status_request.task_id,
                                         status |-> status_response.status,
                                         is_complete |-> task.is_complete]
                  [] at = "line 130" -> [code |-> 200, task_id |-> status_request.task_id,
                                         status |-> status_response.status,
                                         is_complete |-> status_response.is_complete,
                                         success |-> task.success]
                  [] at = "line 131" -> [code |-> 200, task_id |-> status_request.task_id,
                                         status |-> status_response.status,
                                         is_complete |-> status_response.is_complete,
                                         success |-> status_response.success,
                                         output_filename |-> task.output_filename,
                                         sent |-> TRUE]
          /\ status_request' =
                CASE at = "line 125" -> [status_request EXCEPT !.at = "line 129"]
                  [] at = "line 129" -> [status_request EXCEPT !.at = "line 130"]
                  [] at = "line 130" -> [status_request EXCEPT !.at = "line 131"]
                  [] at = "line 131" -> NoRequest
    /\ UNCHANGED <<pc, exc, pipeline_frame, patch_vars, gui_vars, db_vars, TASKS, callback,
                   cancel_request, cancel_response>>

\* A handler that sets the event whatever the task's is_complete.
CancelBranchAlwaysSets(is_complete) == "line 147"

\* Line 146: only a task that is not complete is cancelled.
CancelBranch(is_complete) == IF ~is_complete THEN "line 147" ELSE "line 151"

\* Lines 142-146 and 151: POST /cancel/<task_id> looks the task up and tests
\* its is_complete.
CancelTaskBegin(t) ==
    /\ cancel_request.at = "idle"
    /\ IF ~TASKS[t].known
       THEN /\ cancel_request' = NoRequest
            /\ cancel_response' = [code |-> 404, task_id |-> t]
       ELSE IF CancelBranch(TASKS[t].is_complete) = "line 151"
       THEN /\ cancel_request' = NoRequest
            /\ cancel_response' = [code |-> 200, task_id |-> t,
                                   message |-> "A tarefa já foi concluída"]
       ELSE /\ cancel_request' = [task_id |-> t, at |-> "line 147"]
            /\ cancel_response' = NoResponse
    /\ UNCHANGED <<pc, exc, pipeline_frame, patch_vars, gui_vars, db_vars, TASKS, callback,
                   status_request, status_response>>

\* Lines 147-149: the event is set, then the status text is replaced.
CancelTaskSet ==
    /\ cancel_request.at \in {"line 147", "line 148"}
    /\ IF cancel_request.at = "line 147"
       THEN /\ TASKS' = [TASKS EXCEPT ![cancel_request.task_id].cancel_event = TRUE]
            /\ cancel_request' = [cancel_request EXCEPT !.at = "line 148"]
            /\ UNCHANGED cancel_response
       ELSE /\ TASKS' = [TASKS EXCEPT ![cancel_request.task_id].status =
                                          "Cancelamento solicitado..."]
            /\ cancel_request' = NoRequest
            /\ cancel_response' = [code |-> 200, task_id |-> cancel_request.task_id,
                                   message |-> "Cancelamento solicitado"]
    /\ UNCHANGED <<pc, exc, pipeline_frame, patch_vars, gui_vars, db_vars, callback, status_request,
                   status_response>>

NextFlask ==
    \/ \E t \in TaskIds : Index(t)
    \/ \E t \in TaskIds : CompletionCallbackCall(t)
    \/ \E t \in TaskIds : CompletionCallbackStep(t)
    \/ \E t \in TaskIds : TaskStatusBegin(t)
    \/ TaskStatusRead
    \/ \E t \in TaskIds : CancelTaskBegin(t)
    \/ CancelTaskSet

SpecFlask == InitFlask /\ [][NextFlask]_vars

(* --------------- the desktop window and its worker thread ------------- *)

InitGui ==
    /\ PipelineIdle
    /\ pc = "mainloop"
    /\ exc = "none"
    /\ PatcherIdle
    /\ FlaskIdle
    /\ GuiIdle
    /\ DbIdle

\* threading.Thread.is_alive(): the run has started and not yet returned
\* from process_pdf_thread, whose last statements are its finally clause.
IsAlive(t) == t # NoThread /\ thread_at[t] \in {"try", "finally"}

\* part_000 lines 1372-1430: the convert button.  A run that is alive is
\* refused (lines 1373-1375), invalid input is refused (lines 1386-1403),
\* otherwise a new thread is created and started.
StartConversion ==
    /\ controls = "normal"
    /\ \E valid \in BOOLEAN :
          IF IsAlive(processing_thread) \/ ~valid
             \/ \A t \in ThreadIds : thread_at[t] # "not started"
          THEN UNCHANGED <<cancel_event, processing_thread, thread_at, controls>>
          ELSE LET t == CHOOSE t \in ThreadIds :
                            /\ thread_at[t] = "not started"
                            /\ \A u \in 1..(t - 1) : thread_at[u] # "not started"
               IN /\ controls' = "disabled"
                  /\ cancel_event' = FALSE
                  /\ processing_thread' = t
                  /\ thread_at' = [thread_at EXCEPT ![t] = "try"]
    /\ UNCHANGED <<pc, exc, pipeline_rest, patch_vars, flask_vars, db_vars, after_queue>>

\* part_000 lines 1288-1295: the cancel button, enabled while the other
\* controls are disabled.
RequestCancellation ==
    /\ controls = "disabled"
    /\ \E yes \in BOOLEAN :
          cancel_event' = IF IsAlive(processing_thread) /\ yes THEN TRUE ELSE cancel_event
    /\ UNCHANGED <<pc, exc, pipeline_rest, patch_vars, flask_vars, db_vars, gui_vars>>

\* part_000 lines 1003-1015 and 1320-1370: the run reports its end;
\* conversion_complete schedules final_actions on the GUI thread and
\* returns, and the run enters its finally clause.
ThreadCompletionCallback(t) ==
    /\ thread_at[t] = "try"
    /\ \E success \in BOOLEAN :
          after_queue' = Append(after_queue, [run |-> t, success |-> success])
    /\ thread_at' = [thread_at EXCEPT ![t] = "finally"]
    /\ UNCHANGED <<pc, exc, pipeline_frame, patch_vars, flask_vars, db_vars,
                   processing_thread, controls>>

\* part_000 lines 1016-1051: the finally clause ends and the thread with it.
ThreadFinallyEnds(t) ==
    /\ thread_at[t] = "finally"
    /\ thread_at' = [thread_at EXCEPT ![t] = "returned"]
    /\ UNCHANGED <<pc, exc, pipeline_frame, patch_vars, flask_vars, db_vars,
                   processing_thread, after_queue, controls>>

\* part_000 lines 1322-1367: final_actions on the GUI thread re-enables the
\* controls, clears the event and forgets the thread.
FinalActions ==
    /\ after_queue # <<>>
    /\ after_queue' = Tail(after_queue)
    /\ controls' = "normal"
    /\ cancel_event' = FALSE
    /\ processing_thread' = NoThread
    /\ UNCHANGED <<pc, exc, pipeline_rest, patch_vars, flask_vars, db_vars, thread_at>>

NextGui ==
    \/ StartConversion
    \/ RequestCancellation
    \/ \E t \in ThreadIds : ThreadCompletionCallback(t)
    \/ \E t \in ThreadIds : ThreadFinallyEnds(t)
    \/ FinalActions

SpecGui == InitGui /\ [][NextGui]_vars

(* ------------------- database.py: the log of a task ------------------- *)

\* The row of the task exists, with one message in its log.
InitLog ==
    /\ PipelineIdle
    /\ pc = "serving"
    /\ exc = "none"
    /\ PatcherIdle
    /\ FlaskIdle
    /\ GuiIdle
    /\ db_lock = Unlocked
    /\ tasks_row = [log |-> json_dumps(<<[thread |-> 0, message |-> 1]>>), progress |-> 0]
    /\ log_call = [t \in LogThreads |-> [at |-> "idle", log_list |-> <<>>, returned |-> 0]]

log_frame == <<pc, exc, pipeline_frame, patch_vars, flask_vars, gui_vars>>

\* A lock that lets every thread in.
AcquireUnguarded(lock) == TRUE

\* threading.Lock: acquire succeeds only while nobody holds the lock.
Acquire(lock) == lock = Unlocked

\* Line 65: status_callback calls append_to_log, which waits for db_lock.
AppendToLogAcquire(t) ==
    /\ log_call[t].at = "idle"
    /\ log_call[t].returned < MaxMessages
    /\ Acquire(db_lock)
    /\ db_lock' = t
    /\ log_call' = [log_call EXCEPT ![t].at = "line 68"]
    /\ UNCHANGED <<log_frame, tasks_row>>

\* Lines 68-70: SELECT log and json.loads.
AppendToLogSelect(t) ==
    /\ log_call[t].at = "line 68"
    /\ log_call' = [log_call EXCEPT ![t].at = "line 71",
                                    ![t].log_list = json_loads(tasks_row.log)]
    /\ UNCHANGED <<log_frame, tasks_row, db_lock>>

\* Lines 71-74: append, UPDATE and commit.
AppendToLogUpdate(t) ==
    /\ log_call[t].at = "line 71"
    /\ tasks_row' = [tasks_row EXCEPT !.log =
          json_dumps(Append(log_call[t].log_list,
                            [thread |-> t, message |-> log_call[t].returned + 1]))]
    /\ log_call' = [log_call EXCEPT ![t].at = "line 74", ![t].log_list = <<>>]
    /\ UNCHANGED <<log_frame, db_lock>>

\* The with blocks end: the lock is released and the call returns.
AppendToLogRelease(t) ==
    /\ log_call[t].at = "line 74"
    /\ db_lock' = IF db_lock = t THEN Unlocked ELSE db_lock
    /\ log_call' = [log_call EXCEPT ![t].at = "idle", ![t].returned = @ + 1]
    /\ UNCHANGED <<log_frame, tasks_row>>

\* Lines 77-85: update_task_progress writes the other columns of the row,
\* without db_lock.
UpdateTaskProgress ==
    /\ tasks_row' = [tasks_row EXCEPT !.progress = 1 - @]
    /\ UNCHANGED <<log_frame, db_lock, log_call>>

NextLog ==
    \/ \E t \in LogThreads : AppendToLogAcquire(t)
    \/ \E t \in LogThreads : AppendToLogSelect(t)
    \/ \E t \in LogThreads : AppendToLogUpdate(t)
    \/ \E t \in LogThreads : AppendToLogRelease(t)
    \/ UpdateTaskProgress

SpecLog == InitLog /\ [][NextLog]_vars

(* ------------------- parse_page_ranges on its own --------------------- *)

\* The characters of the range strings that are tried: digits, the two
\* separators, the blank and a letter.
RangeAlphabet == {"0", "1", "2", "3", ",", "-", " ", "x"}

\* All strings of at most MaxRangeLen characters.
RangeStrings == UNION {[1..n -> RangeAlphabet] : n \in 0..MaxRangeLen}

\* The string "1-3,5,7-" of the documentation, for a document of 10 pages.
ExampleRange == <<"1", "-", "3", ",", "5", ",", "7", "-">>

\* The call of line 1255 with any bounded string and page count.
InitParse ==
    /\ pc = "parse_page_ranges"
    /\ exc = "none"
    /\ cancel_event = FALSE
    /\ api_errors = 0
    /\ api_error_budget = MaxApiErrors
    /\ num_upload_workers = 1
    /\ num_generate_workers = 1
    /\ \/ page_range \in RangeStrings /\ total_doc_pages \in 0..MaxParsePages
       \/ page_range = ExampleRange /\ total_doc_pages = 10
    /\ api_key = TRUE
    /\ temp_image_dir = FALSE
    /\ selected_pages_0_indexed = ParseList(<<>>)
    /\ image_paths = <<>>
    /\ uploaded_files_map = PyDict(<<>>)
    /\ up_attempt = 0
    /\ current_image_paths = <<>>
    /\ failed_in_this_attempt = <<>>
    /\ successfully_uploaded_map = <<>>
    /\ future_to_path = {}
    /\ up_queue = <<>>
    /\ up_harvested = {}
    /\ up_task = [p \in AllPaths |-> IdleUploadTask]
    /\ tasks_for_html_generation = <<>>
    /\ temp_generated_html_results = <<>>
    /\ gen_attempt = 0
    /\ current_html_tasks_for_retry_phase = <<>>
    /\ failed_tasks_for_next_round = <<>>
    /\ future_to_task_info = {}
    /\ gen_queue = <<>>
    /\ gen_harvested = {}
    /\ completed_in_this_attempt = 0
    /\ gen_task = [k \in TaskRefs |-> IdleGenTask]
    /\ merged_html = <<>>
    /\ slot_writes = [k \in TaskRefs |-> 0]
    /\ html_returned = {}
    /\ remote_files = {}
    /\ delete_calls = [f \in AllRemoteNames |-> 0]
    /\ cleanup_runs = 0
    /\ cleanup_warnings = {}
    /\ cleanup_todo = <<>>
    /\ completion_calls = <<>>
    /\ cancelled_at = "never"
    /\ files_at_cancel = {}
    /\ in_call_at_cancel = {}
    /\ late_upload_calls = [p \in AllPaths |-> 0]
    /\ quota_exhausted = FALSE
    /\ FrontIdle

\* Line 1255: selected_pages_0_indexed = parse_page_ranges(...).
ParsePageRangesCall ==
    /\ pc = "parse_page_ranges"
    /\ selected_pages_0_indexed' = parse_page_ranges(page_range, total_doc_pages)
    /\ pc' = "parsed"
    /\ UNCHANGED <<exc, cancel_event, api_errors, config_vars, front_vars, temp_image_dir,
                   image_paths, uploaded_files_map, upload_vars, remote_vars,
                   cleanup_runs, cleanup_warnings, cleanup_todo, completion_calls, history_vars,
                   gen_vars>>

NextParse == ParsePageRangesCall

SpecParse == InitParse /\ [][NextParse]_vars

(* ------------------------------ properties ---------------------------- *)

\* Pipeline positions of the two phases that run a thread pool.
UploadPoolOpen == {"upload_as_completed", "upload_join"}

GenPoolOpen == {"gen_as_completed", "gen_join"}

\* Worker positions between submission and the end of the task.
Unfinished == RunningStates \cup {"queued", "raised"}

\* The keys of the insertion-ordered map built by the upload phase.
UploadedKeys == {successfully_uploaded_map[i].path :
                    i \in 1..Len(successfully_uploaded_map)}

\* The slots of the result buffer that hold a result.
PopulatedSlots ==
    {i \in 1..Len(temp_generated_html_results) : ~temp_generated_html_results[i].none}

\* C1: when the cleanup block has finished, every remote file created by
\* upload_file has been the target of exactly one delete_file call, whatever
\* the exit path (success, failure, cancellation).
C1_EveryRemoteFileDeletedExactlyOnce ==
    pc = "done" => \A f \in remote_files : delete_calls[f] = 1

\* C2: when the cancel event is set during the upload phase, every remote
\* file that existed at that moment has been deleted when the run ends.
C2_FilesBeforeUploadCancelAreDeleted ==
    (pc = "done" /\ cancelled_at = "upload")
        => \A f \in files_at_cancel : delete_calls[f] >= 1

\* C3 as stated: once the cancel event is set, no upload worker issues a
\* genai.upload_file call.
C3_NoUploadCallAfterCancel ==
    \A p \in AllPaths : late_upload_calls[p] = 0

\* C3, amended: once the cancel event is set, the only upload_file calls are
\* those of workers that had already passed the check of line 90 when the
\* event was set, one call each; queued tasks and further attempts raise.
C3_OnlyPendingUploadCallAfterCancel ==
    /\ \A p \in AllPaths :
          late_upload_calls[p] > 0
             => (p \in in_call_at_cancel /\ late_upload_calls[p] = 1)
    /\ cancel_event =>
          \A p \in AllPaths :
             (up_task[p].st = "call" /\ up_task[p].api = "upload_file")
                => (p \in in_call_at_cancel /\ late_upload_calls[p] = 0)

\* A worker calls upload_file after the event was set while a queued task
\* of the same round was turned away at its entry.
C3_Witness ==
    \E p, q \in AllPaths :
       /\ late_upload_calls[p] = 1
       /\ up_task[q].st = "done"
       /\ up_task[q].result = "OperationCancelledError"

\* C4: the cleanup block runs exactly once on every exit path: it has not
\* run before the finally clause is reached, it has run once when the
\* function returns, and the function cannot stop anywhere else.
C4_CleanupExactlyOnce ==
    /\ cleanup_runs = (IF pc \in {"cleanup_remote", "done"} THEN 1 ELSE 0)
    /\ (pc # "done") => ENABLED RunStep

\* A cancelled run has returned after deleting the files of its map.
C4_Witness ==
    /\ pc = "done"
    /\ cancel_event
    /\ cleanup_runs = 1
    /\ \E f \in remote_files : delete_calls[f] = 1

\* C5: without cancellation, when the generation rounds are over slot i is
\* not None exactly when the task with original_idx i returned a non-empty
\* html_body in some round; no slot is written more than once.
C5_SlotPopulatedIffHtmlReturned ==
    /\ \A i \in DOMAIN slot_writes : slot_writes[i] <= 1
    /\ (pc = "after_generation" /\ ~cancel_event) =>
          \A k \in 1..Len(tasks_for_html_generation) :
             (tasks_for_html_generation[k].original_idx + 1 \in PopulatedSlots)
                <=> (k \in html_returned)

\* One task got its HTML in the retry round, another one never did.
C5_Witness ==
    /\ pc = "after_generation"
    /\ ~cancel_event
    /\ \E k \in html_returned : gen_task[k].round = 1
    /\ \E k \in 1..Len(tasks_for_html_generation) : k \notin html_returned

\* C6: whatever the order in which the futures complete, a result is stored
\* in the slot of the original_idx the coordinator tracks for its task.
C6_ResultStoredAtTrackedIndex ==
    \A i \in PopulatedSlots :
       \E k \in 1..Len(tasks_for_html_generation) :
          /\ tasks_for_html_generation[k].original_idx = i - 1
          /\ temp_generated_html_results[i].page_num_in_doc
                = tasks_for_html_generation[k].page_num_in_doc
          /\ temp_generated_html_results[i].body
                = tasks_for_html_generation[k].file_api_object

\* The second task of a round of two has been stored before the first one.
C6_Witness ==
    /\ pc = "gen_as_completed"
    /\ Len(temp_generated_html_results) = 2
    /\ PopulatedSlots = {2}
    /\ gen_harvested = {2}
    /\ gen_task[1].st \in RunningStates

\* C7: the list handed to create_merged_html_with_accessibility is strictly
\* ascending in page number, and the merged document holds its pages in
\* that order with exactly one separator between consecutive pages.
C7_MergedPagesAscending ==
    LET content_list == GeneratedContentList(temp_generated_html_results)
        n == Len(content_list)
    IN /\ pc \in {"after_generation", "merge", "complete"} =>
             \A i, j \in 1..n :
                i < j => content_list[i].page_num_in_doc < content_list[j].page_num_in_doc
       /\ pc = "complete" =>
             /\ Len(merged_html) = 2 * n - 1
             /\ \A i \in 1..n :
                   /\ merged_html[2 * i - 1].kind = "article"
                   /\ merged_html[2 * i - 1].page = content_list[i].page_num_in_doc
                   /\ merged_html[2 * i - 1].body = content_list[i].body
             /\ \A i \in 1..(n - 1) : merged_html[2 * i] = Separator

\* Two pages were merged although the uploads finished in reverse page
\* order and the first page needed the retry round.
C7_Witness ==
    /\ pc = "complete"
    /\ Len(merged_html) = 3
    /\ Len(uploaded_files_map.items) = 2
    /\ PageNumFromPath(uploaded_files_map.items[1].path)
          > PageNumFromPath(uploaded_files_map.items[2].path)
    /\ tasks_for_html_generation[1].model_to_use = MODELO_ESCALONAMENTO

\* C8: without cancellation, after the last upload round every path handed to
\* upload_to_gemini_file_api is either a key of successfully_uploaded_map or
\* an element of the final failed list, never both and never neither.
C8_UploadedOrFailed ==
    (pc = "upload_return" /\ ~cancel_event) =>
       /\ UploadedKeys \cup Range(current_image_paths) = Range(image_paths)
       /\ UploadedKeys \cap Range(current_image_paths) = {}
       /\ Len(successfully_uploaded_map) + Len(current_image_paths) = Len(image_paths)

\* After the retry round one path is uploaded and the other one has failed.
C8_Witness ==
    /\ pc = "upload_return"
    /\ ~cancel_event
    /\ up_attempt = PHASE_MAX_RETRIES + 1
    /\ successfully_uploaded_map # <<>>
    /\ current_image_paths # <<>>

\* C9: without cancellation, after the generation rounds the populated slots
\* and the final failed list together are the T tasks, none in both groups.
C9_PopulatedPlusFailedIsAll ==
    (pc = "after_generation" /\ ~cancel_event) =>
       LET T == Len(tasks_for_html_generation)
           failed == current_html_tasks_for_retry_phase
           FailedSlots == {tasks_for_html_generation[failed[i]].original_idx + 1 :
                              i \in 1..Len(failed)}
       IN /\ Cardinality(PopulatedSlots) + Len(failed) = T
          /\ PopulatedSlots \cup FailedSlots = 1..T
          /\ PopulatedSlots \cap FailedSlots = {}

\* Two tasks: one populated its slot, the other one failed both rounds.
C9_Witness ==
    /\ pc = "after_generation"
    /\ ~cancel_event
    /\ Len(tasks_for_html_generation) = 2
    /\ Cardinality(PopulatedSlots) = 1
    /\ Len(current_html_tasks_for_retry_phase) = 1
    /\ gen_attempt = PHASE_MAX_RETRIES + 1

\* C10: rounds do not overlap: a worker is queued or running only while the
\* coordinator is inside the round that submitted it, so round r + 1 is
\* submitted after every worker of round r has finished and, when the
\* harvest is left early on cancellation, the phase returns only after
\* every started worker has finished.
C10_RoundsDoNotOverlap ==
    /\ \A p \in AllPaths :
          up_task[p].st \in Unfinished
             => (pc \in UploadPoolOpen /\ up_task[p].round = up_attempt
                   /\ p \in future_to_path)
    /\ \A k \in TaskRefs :
          gen_task[k].st \in Unfinished
             => (pc \in GenPoolOpen /\ gen_task[k].round = gen_attempt
                   /\ k \in future_to_task_info)

\* The coordinator left the harvest on cancellation and waits for a worker
\* that is still inside its API call.
C10_Witness ==
    /\ pc = "upload_join"
    /\ cancel_event
    /\ up_harvested # future_to_path
    /\ \E p \in future_to_path : up_task[p].st = "call"


\* C11: phases are sequential: a generation worker is queued or running only
\* after upload_to_gemini_file_api has returned, when no upload worker of any
\* round is queued or running any more.
C11_GenerationAfterUploadDrained ==
    \A k \in TaskRefs :
       gen_task[k].st \in Unfinished =>
          /\ \A p \in AllPaths : up_task[p].st \notin Unfinished
          /\ pc \in GenPoolOpen
          /\ ~uploaded_files_map.none

\* A generate_content call is in progress after an upload phase that needed
\* its retry round.
C11_Witness ==
    /\ \E k \in TaskRefs : gen_task[k].st = "call"
    /\ \E i \in 1..Len(uploaded_files_map.items) :
          uploaded_files_map.items[i].file.attempt = 1

\* C12: in each phase round 0 submits every item, a later round submits
\* exactly the items that failed in the round before it, no round starts
\* after round PHASE_MAX_RETRIES, and an item that succeeded (uploaded, HTML
\* stored) is not submitted again.
C12_RoundsResubmitOnlyFailures ==
    [][ /\ (pc = "upload_loop" /\ pc' = "upload_as_completed") =>
             /\ up_attempt <= PHASE_MAX_RETRIES
             /\ future_to_path' =
                   (IF up_attempt = 0 THEN Range(image_paths)
                    ELSE Range(failed_in_this_attempt))
             /\ future_to_path' \cap UploadedKeys = {}
             /\ \A p \in future_to_path' :
                   up_task'[p].st = "queued" /\ up_task'[p].round = up_attempt
        /\ (pc = "gen_loop" /\ pc' = "gen_as_completed") =>
             /\ gen_attempt <= PHASE_MAX_RETRIES
             /\ future_to_task_info' =
                   (IF gen_attempt = 0 THEN 1..Len(tasks_for_html_generation)
                    ELSE Range(failed_tasks_for_next_round))
             /\ \A k \in future_to_task_info' :
                   /\ tasks_for_html_generation[k].original_idx + 1 \notin PopulatedSlots
                   /\ gen_task'[k].st = "queued" /\ gen_task'[k].round = gen_attempt
      ]_vars

\* The retry round of the generation phase has submitted one task of two;
\* the other one has its HTML stored.
C12_Witness ==
    /\ pc = "gen_as_completed"
    /\ gen_attempt = 1
    /\ Len(tasks_for_html_generation) = 2
    /\ Cardinality(future_to_task_info) = 1
    /\ Cardinality(PopulatedSlots) = 1
    /\ \A k \in future_to_task_info :
          tasks_for_html_generation[k].original_idx + 1 \notin PopulatedSlots

\* C13: without cancellation the map upload_to_gemini_file_api returns holds
\* exactly the paths whose worker saw its file ACTIVE, in round 0 or in the
\* retry round, each with that live file; when no path is left failed the
\* map has as many entries as paths were handed in.
C13_ReturnedMapIsTheActiveUploads ==
    /\ [](  (pc = "upload_return" /\ ~cancel_event) =>
              /\ \A p \in Range(image_paths) :
                    p \in UploadedKeys
                       <=> (up_task[p].st = "done" /\ up_task[p].result = "file")
              /\ \A i \in 1..Len(successfully_uploaded_map) :
                    LET e == successfully_uploaded_map[i]
                    IN /\ e.file = up_task[e.path].file
                       /\ e.file \in remote_files
                       /\ delete_calls[e.file] = 0
              /\ (\A p \in Range(image_paths) : up_task[p].result = "file")
                    => Len(successfully_uploaded_map) = Len(image_paths) )
    /\ [][ /\ \A p \in AllPaths :
                (up_task'[p].result = "file" /\ up_task[p].result # "file")
                   => (up_task[p].st = "poll" /\ up_task[p].state = "ACTIVE")
           /\ (pc = "upload_return" /\ pc' = "after_upload"
                  /\ successfully_uploaded_map # <<>>)
                 => uploaded_files_map' = PyDict(successfully_uploaded_map)
         ]_vars

\* Two paths were handed in; one was uploaded in round 0, the other one
\* failed there and was uploaded in the retry round: two survivors.
C13_Witness ==
    /\ pc = "upload_return"
    /\ ~cancel_event
    /\ Len(image_paths) = 2
    /\ Len(successfully_uploaded_map) = 2
    /\ \E i, j \in 1..2 :
          /\ successfully_uploaded_map[i].file.attempt = 0
          /\ successfully_uploaded_map[j].file.attempt = 1

\* The worker returned without HTML and with finish reason MAX_TOKENS.
TruncatedReturn(ret) ==
    /\ ret.kind = "returned"
    /\ ~HasHtml(ret.html_body)
    /\ ret.finish_reason = FINISH_REASON_MAX_TOKENS

\* The step in which the coordinator handles the future of task k.
HarvestStepOf(k) ==
    /\ pc = "gen_as_completed"
    /\ k \notin gen_harvested
    /\ k \in gen_harvested'

\* The step in which a generation round submits its tasks.
GenSubmitStep == pc = "gen_loop" /\ pc' = "gen_as_completed"

C15_TaskFieldsFrame ==
    [][ pc # "build_tasks" =>
          /\ Len(tasks_for_html_generation') = Len(tasks_for_html_generation)
          /\ \A k \in 1..Len(tasks_for_html_generation) :
                LET old == tasks_for_html_generation[k]
                    new == tasks_for_html_generation'[k]
                IN /\ new.original_idx = old.original_idx
                   /\ new.page_num_in_doc = old.page_num_in_doc
                   /\ new.file_api_object = old.file_api_object
                   /\ new.local_img_path = old.local_img_path
                   /\ new.model_to_use # old.model_to_use =>
                         /\ HarvestStepOf(k)
                         /\ TruncatedReturn(gen_task[k].ret)
                         /\ new.model_to_use = MODELO_ESCALONAMENTO
                   /\ (GenSubmitStep /\ k \in future_to_task_info') =>
                         gen_task'[k].model_name = old.model_to_use
      ]_vars

\* In the retry round the first task, which failed without truncation,
\* runs with the model it had, while the second one has been escalated.
C15_Witness ==
    /\ pc = "gen_as_completed"
    /\ gen_attempt = 1
    /\ future_to_task_info = {1, 2}
    /\ gen_task[1].st = "call"
    /\ gen_task[1].model_name = DEFAULT_GEMINI_MODEL
    /\ tasks_for_html_generation[2].model_to_use = MODELO_ESCALONAMENTO

\* The page numbers that have an article in the merged document.
MergedPages ==
    {merged_html[i].page : i \in {j \in 1..Len(merged_html) :
                                     merged_html[j].kind = "article"}}

\* C16: the merged document has an entry for every attempted page: a page
\* whose generation failed for good is present as a placeholder.
C16_EveryAttemptedPageHasAnEntry ==
    pc = "complete" =>
       \A k \in 1..Len(tasks_for_html_generation) :
          tasks_for_html_generation[k].page_num_in_doc \in MergedPages

\* C17: when some but not all attempted pages were generated, the outcome
\* is flagged partial: the locator reported to the completion sink differs
\* from the one a complete result is written under.
C17_PartialOutcomeIsDistinguished ==
    LET T == Len(tasks_for_html_generation)
        n == Cardinality(PopulatedSlots)
    IN (completion_calls # <<>> /\ completion_calls[1].success /\ 0 < n /\ n < T)
          => completion_calls[1].message # OutputPath(T, T)

\* C18: when the generation phase ends with no populated slot although
\* tasks were attempted, nothing is merged or written and the completion
\* sink is called with success = False; with at least one populated slot
\* (and no cancellation) the pipeline goes on to the merge.
C18_NoContentFailsTheRun ==
    /\ [](  /\ (pc \in {"merge", "complete"} \/ merged_html # <<>>)
                  => PopulatedSlots # {}
            /\ (completion_calls # <<>> /\ tasks_for_html_generation # <<>>
                   /\ PopulatedSlots = {})
                  => ~completion_calls[1].success
            /\ pc = "done" => Len(completion_calls) = 1 )
    /\ [][ (pc = "after_generation" /\ pc' # pc /\ ~cancel_event
               /\ PopulatedSlots # {})
              => pc' = "merge" ]_vars

\* Two tasks were attempted in both rounds, no slot is populated, and the
\* run has ended with a failure report and without a merged document.
C18_Witness ==
    /\ pc = "done"
    /\ ~cancel_event
    /\ Len(tasks_for_html_generation) = 2
    /\ PopulatedSlots = {}
    /\ merged_html = <<>>
    /\ completion_calls = <<CompletionArgs(FALSE, "Exception")>>

\* C19: in process_pdf_thread, when the generation phase ends with no
\* populated slot although tasks were attempted, the completion sink is
\* called with success = False and never with success = True.
C19_ThreadNoContentFailsTheRun ==
    (tasks_for_html_generation # <<>> /\ PopulatedSlots = {}) =>
       /\ \A i \in 1..Len(completion_calls) : ~completion_calls[i].success
       /\ pc = "done" => completion_calls # <<>>

\* C20: the upload phase ends the run exactly when its final map is empty
\* although images were attempted: upload_to_gemini_file_api then returns
\* None and process_pdf_web raises; with at least one ACTIVE file the map is
\* returned as it is, the run goes on to the generation phase unless it is
\* cancelled, and the tasks are built for exactly the uploaded paths, however
\* many images failed for good.
C20_UploadFatalOnlyWithoutSurvivors ==
    [][/\ (pc = "upload_return" /\ pc' = "after_upload") =>
             /\ Len(image_paths) > 0
             /\ (uploaded_files_map'.none <=> successfully_uploaded_map = <<>>)
             /\ (~uploaded_files_map'.none =>
                    uploaded_files_map'.items = successfully_uploaded_map)
       /\ (pc = "after_upload" /\ pc' # pc) =>
             LET survivors == IF uploaded_files_map.none THEN <<>>
                              ELSE uploaded_files_map.items
             IN /\ (pc' = "except" /\ exc' = "Exception") <=> survivors = <<>>
                /\ (survivors # <<>> /\ ~cancel_event) => pc' = "build_tasks"
                /\ (survivors # <<>> /\ cancel_event) =>
                      (pc' = "except" /\ exc' = "OperationCancelledError")
       /\ (pc = "build_tasks" /\ pc' # pc) =>
             /\ pc' = "gen_loop"
             /\ Len(tasks_for_html_generation') = Len(uploaded_files_map.items)
             /\ \A i \in 1..Len(uploaded_files_map.items) :
                   \E k \in 1..Len(tasks_for_html_generation') :
                      /\ tasks_for_html_generation'[k].local_img_path =
                            uploaded_files_map.items[i].path
                      /\ tasks_for_html_generation'[k].file_api_object =
                            uploaded_files_map.items[i].file
      ]_vars

\* The generation phase has begun for one page of a two-page run: the other
\* image failed in every upload round.
C20_Witness ==
    /\ pc = "gen_loop"
    /\ Len(image_paths) = 2
    /\ Len(tasks_for_html_generation) = 1
    /\ Len(uploaded_files_map.items) = 1
    /\ ~cancel_event

\* C21: once a remote call (upload_file, get_file or generate_content) has
\* raised ResourceExhausted, the run that is not cancelled ends in failure
\* carrying that error: it never reaches the merge, and the completion sink
\* is called with success = False and the quota error.
C21_QuotaExhaustionIsFatal ==
    (quota_exhausted /\ ~cancel_event) =>
       /\ pc \notin {"merge", "complete"}
       /\ completion_calls # <<>> =>
             completion_calls[1] = CompletionArgs(FALSE, "ResourceExhausted")

\* C22: a worker that has finished has either returned (a result or a
\* failure marker) or raised OperationCancelledError; no other exception
\* leaves an upload worker or a generation worker.
C22_ItemFailuresBecomeMarkers ==
    /\ \A p \in AllPaths :
          up_task[p].st = "done" =>
             up_task[p].result \in {"file", "None", "OperationCancelledError"}
    /\ \A k \in TaskRefs :
          gen_task[k].st = "done" =>
             gen_task[k].ret.kind \in {"returned", "OperationCancelledError"}

\* C23: an upload worker that holds a remote file in state PROCESSING when
\* the cancel event is set (the file was not being created at that moment)
\* finishes only after delete_file was called on that file, and its future
\* carries OperationCancelledError.
C23_CancelledPollDeletesAndRaises ==
    [][\A p \in AllPaths :
          (/\ cancel_event
           /\ p \notin in_call_at_cancel
           /\ up_task[p].st \in RunningStates
           /\ up_task[p].file # NoFile
           /\ up_task[p].state = "PROCESSING"
           /\ up_task'[p].st = "done")
          => /\ delete_calls'[up_task[p].file] >= 1
             /\ up_task'[p].result = "OperationCancelledError"
      ]_vars

\* C24: when the cancel event was set before the check that follows the
\* generation rounds (line 1352), process_pdf_web never reaches the merge,
\* writes no merged artifact, calls the completion sink only with
\* success = False, and has run its cleanup (once) and reported when it is done.
C24_CancelBeforeMergeFailsTheRun ==
    (cancel_event /\ cancelled_at # "ending") =>
       /\ pc \notin {"merge", "complete"}
       /\ merged_html = <<>>
       /\ \A i \in 1..Len(completion_calls) : ~completion_calls[i].success
       /\ pc = "done" => (Len(completion_calls) = 1 /\ cleanup_runs = 1)

\* A run cancelled during the generation phase, after a worker had returned
\* HTML, is done: it reported the cancellation and cleaned up.
C24_Witness ==
    /\ pc = "done"
    /\ cancelled_at = "generation"
    /\ html_returned # {}
    /\ completion_calls = <<CompletionArgs(FALSE, "OperationCancelledError")>>
    /\ cleanup_runs = 1

\* C25: process_pdf_web calls the completion sink at most once at any moment
\* and exactly once by the time it is done; the call has success = True
\* exactly when the merged artifact was written before it, and success =
\* False in every other run.
C25_OneCompletionSignal ==
    /\ Len(completion_calls) <= 1
    /\ pc = "done" => Len(completion_calls) = 1
    /\ completion_calls # <<>> =>
          (completion_calls[1].success <=> merged_html # <<>>)
    /\ pc = "complete" => merged_html # <<>>

\* A finished two-page run that reported success after the merge; the cancel
\* event came too late to stop it.
C25_Witness ==
    /\ pc = "done"
    /\ Len(tasks_for_html_generation) = 2
    /\ merged_html # <<>>
    /\ completion_calls # <<>>
    /\ completion_calls[1].success
    /\ cancelled_at = "ending"

\* C26: a run of process_pdf_web whose API key is missing or whose page
\* range parse_page_ranges rejects never rasterizes, uploads or generates:
\* from its start it goes to the except clause with ValueError, reports
\* failure through the completion sink and runs the cleanup.
C26_ConfigurationErrorAbortsBeforeWork ==
    (~api_key \/ parse_page_ranges(page_range, total_doc_pages).none) =>
       /\ pc \in {"start", "except", "finally", "cleanup_remote", "done"}
       /\ pc = "except" => exc = "ValueError"
       /\ image_paths = <<>>
       /\ remote_files = {}
       /\ api_errors = 0
       /\ \A f \in AllRemoteNames : delete_calls[f] = 0
       /\ \A p \in AllPaths : up_task[p] = IdleUploadTask
       /\ \A k \in TaskRefs : gen_task[k] = IdleGenTask
       /\ tasks_for_html_generation = <<>>
       /\ completion_calls \in {<<>>, <<CompletionArgs(FALSE, "ValueError")>>}
       /\ pc \in {"finally", "cleanup_remote", "done"} => completion_calls # <<>>
       /\ pc = "done" => cleanup_runs = 1

\* A run with an API key whose page range holds only separators is done: it
\* reported the ValueError and cleaned up.
C26_Witness ==
    /\ pc = "done"
    /\ api_key
    /\ page_range = <<",", " ">>
    /\ completion_calls = <<CompletionArgs(FALSE, "ValueError")>>
    /\ cleanup_runs = 1

\* C27: whenever process_pdf_web is about to create the upload pool or the
\* generation pool, the pool size it passes is at least 1.
C27_PoolSizesAtLeastOne ==
    /\ pc = "upload_loop" => num_upload_workers >= 1
    /\ pc = "gen_loop" => num_generate_workers >= 1

(* The grammar of page ranges, as the properties below state it. *)

\* The parts of a range string that are not blank, stripped.
Tokens(range_str) ==
    {Strip(Split(range_str, ",")[i]) : i \in 1..Len(Split(range_str, ","))} \ {<<>>}

\* A numeral: digits, possibly surrounded by blanks.
IsNumeral(w) ==
    Strip(w) # <<>> /\ \A i \in 1..Len(Strip(w)) : IsDigit(Strip(w)[i])

NumeralValue(w) == DecimalValue(Strip(w))

\* The 1-based pages a token of the grammar denotes in a document of n
\* pages: k, A-B or A-; the empty set when the token is malformed, reversed
\* or out of bounds.
TokenPages(token, n) ==
    LET i == Find(token, "-")
        a == SubSeq(token, 1, i - 1)
        b == SubSeq(token, i + 1, Len(token))
    IN IF i = 0
       THEN IF IsNumeral(token) /\ NumeralValue(token) \in 1..n
            THEN {NumeralValue(token)} ELSE {}
       ELSE IF ~IsNumeral(a) THEN {}
       ELSE IF b = <<>>
       THEN IF NumeralValue(a) \in 1..n THEN NumeralValue(a)..n ELSE {}
       ELSE IF IsNumeral(b) /\ NumeralValue(a) \in 1..n /\ NumeralValue(b) \in 1..n
               /\ NumeralValue(a) <= NumeralValue(b)
       THEN NumeralValue(a)..NumeralValue(b) ELSE {}

\* C28: parse_page_ranges returns None or a strictly increasing list of
\* indices within [0, N); when some token of the string is malformed, a
\* reversed range or out of bounds the result is None, never a list made of
\* the other tokens.
C28_ParseIsAllOrNothing ==
    pc = "parsed" =>
       LET r == selected_pages_0_indexed
       IN /\ ~r.none =>
                /\ \A i \in 1..Len(r.list) :
                      0 <= r.list[i] /\ r.list[i] < total_doc_pages
                /\ \A i \in 1..Len(r.list) : \A j \in 1..Len(r.list) :
                      i < j => r.list[i] < r.list[j]
          /\ (\E t \in Tokens(page_range) : TokenPages(t, total_doc_pages) = {})
                => r.none

\* A valid token followed by a malformed one: the result is None.
C28_Witness ==
    /\ pc = "parsed"
    /\ page_range = <<"1", ",", "x">>
    /\ total_doc_pages = 3
    /\ selected_pages_0_indexed.none

\* C29: for a string whose tokens are all valid, parse_page_ranges returns
\* exactly the pages the tokens denote, as 0-based indices: k gives k-1, A-B
\* gives A-1..B-1 and A- gives A-1..N-1; "1-3,5,7-" with N = 10 gives
\* [0,1,2,4,6,7,8,9].
C29_ParseReturnsTheUnionOfTheTokens ==
    pc = "parsed" =>
       LET r == selected_pages_0_indexed
           denoted == UNION {TokenPages(t, total_doc_pages) : t \in Tokens(page_range)}
       IN /\ (/\ Tokens(page_range) # {}
              /\ \A t \in Tokens(page_range) : TokenPages(t, total_doc_pages) # {})
                => /\ ~r.none
                   /\ {r.list[i] + 1 : i \in 1..Len(r.list)} = denoted
                   /\ Len(r.list) = Cardinality(denoted)
          /\ (page_range = ExampleRange /\ total_doc_pages = 10)
                => r = ParseList(<<0, 1, 2, 4, 6, 7, 8, 9>>)

\* The documented example has been parsed.
C29_Witness ==
    /\ pc = "parsed"
    /\ page_range = ExampleRange
    /\ total_doc_pages = 10
    /\ selected_pages_0_indexed.list = <<0, 1, 2, 4, 6, 7, 8, 9>>

\* C30: a blank range string selects all pages [0..N-1]; a string that is
\* not blank and selects no page gives None, never an empty list.
C30_EmptyMeansAllAndNothingIsAnError ==
    pc = "parsed" =>
       LET r == selected_pages_0_indexed
       IN /\ (\A i \in 1..Len(page_range) : page_range[i] = " ")
                => r = ParseList([i \in 1..total_doc_pages |-> i - 1])
          /\ ((\E i \in 1..Len(page_range) : page_range[i] # " ") /\ ~r.none)
                => r.list # <<>>
          /\ (\A i \in 1..Len(page_range) : page_range[i] \in {",", " "})
                /\ (\E i \in 1..Len(page_range) : page_range[i] = ",")
                => r.none

\* A string of commas and blanks has been parsed to None.
C30_Witness ==
    /\ pc = "parsed"
    /\ page_range = <<",", " ", ",">>
    /\ total_doc_pages = 2
    /\ selected_pages_0_indexed.none

(* ---------------------- the retry loop of one call -------------------- *)

\* The worker records that are inside gemini_api_call_with_retry.
RetryLoopStates == {"check", "call", "backoff"}

RetryCalls ==
    {up_task[p] : p \in AllPaths} \cup
    {[st |-> gen_task[k].st, api |-> gen_task[k].api, retries |-> gen_task[k].retries,
      backoff_time |-> gen_task[k].backoff_time, wait |-> gen_task[k].wait] :
        k \in TaskRefs}

\* The attempt about to start is at most number MAX_RETRIES_PER_CALL + 1, and
\* the wait before retry k is INITIAL_BACKOFF * 2^(k-1) capped at MAX_BACKOFF.
RetryLoopBounded ==
    \A t \in RetryCalls :
        /\ t.st \in {"check", "call"} => t.retries <= MAX_RETRIES_PER_CALL
        /\ t.st = "backoff" =>
              /\ t.retries \in 1..MAX_RETRIES_PER_CALL
              /\ t.backoff_time = Min(INITIAL_BACKOFF * 2^(t.retries - 1), MAX_BACKOFF)
              /\ t.wait \in 1..t.backoff_time
        /\ t.st \in RetryLoopStates => t.backoff_time <= MAX_BACKOFF

\* Only a retryable exception leads to a wait, and with the cancel event set
\* neither the loop head nor a wait goes on to the call.
RetryLoopStep ==
    /\ \A p \in AllPaths :
          /\ (up_task[p].st = "call" /\ up_task'[p].st = "backoff")
                => (api_errors' = api_errors + 1 /\ quota_exhausted' = quota_exhausted)
          /\ (cancel_event /\ up_task[p].st \in {"check", "backoff"}
                /\ up_task'[p] # up_task[p])
                => up_task'[p].st \notin RetryLoopStates
          /\ (up_task[p].st = "check" /\ up_task'[p].st = "call") => ~cancel_event
    /\ \A k \in TaskRefs :
          /\ (gen_task[k].st = "call" /\ gen_task'[k].st = "backoff")
                => (api_errors' = api_errors + 1 /\ quota_exhausted' = quota_exhausted)
          /\ (cancel_event /\ gen_task[k].st \in {"check", "backoff"}
                /\ gen_task'[k] # gen_task[k])
                => gen_task'[k].st \notin RetryLoopStates
          /\ (gen_task[k].st = "check" /\ gen_task'[k].st = "call") => ~cancel_event

\* C31: gemini_api_call_with_retry calls the API function at most
\* MAX_RETRIES_PER_CALL + 1 times and retries only after a retryable
\* exception; the wait before retry k starts at INITIAL_BACKOFF, doubles and
\* never exceeds MAX_BACKOFF; the cancel event is checked before every
\* attempt and in every second of a wait; and every call leaves the loop,
\* with the answer of the API function or with an exception.
C31_RetryIsBoundedAndCancellable ==
    /\ []RetryLoopBounded
    /\ [][RetryLoopStep]_vars
    /\ \A p \in AllPaths :
          (up_task[p].st \in RetryLoopStates) ~> (up_task[p].st \notin RetryLoopStates)
    /\ \A k \in TaskRefs :
          (gen_task[k].st \in RetryLoopStates) ~> (gen_task[k].st \notin RetryLoopStates)

\* The fourth attempt of one call is about to start, after waits of 1, 2 and 4.
C31_Witness ==
    \E p \in AllPaths :
        /\ up_task[p].st = "call"
        /\ up_task[p].retries = MAX_RETRIES_PER_CALL
        /\ up_task[p].backoff_time = MAX_BACKOFF

(* --------------------------- the finally clause ----------------------- *)

\* The positions inside the remote deletion loop of the finally clause.
DeleteLoopPositions == {"cleanup_remote", "thread_cleanup_remote"}

\* One iteration of the deletion loop: it comes after the local removal, it
\* calls delete_file on the handle at the head, and whatever the call does
\* the loop stays in the finally clause with the remaining handles.
DeleteLoopIteration ==
    (pc \in DeleteLoopPositions /\ cleanup_todo' # cleanup_todo)
        => /\ cleanup_runs = 1
           /\ pc' = pc
           /\ exc' = exc
           /\ cleanup_todo # <<>>
           /\ cleanup_todo' = Tail(cleanup_todo)
           /\ delete_calls' = DeleteFile(delete_calls, Head(cleanup_todo))

\* After the finally clause delete_file was called on every handle of
\* uploaded_files_map, also when the directory could not be removed and when
\* some of the calls raised.
EveryHandleAttempted ==
    pc = "done" =>
        /\ cleanup_todo = <<>>
        /\ \A i \in 1..Len(FilesToClean(uploaded_files_map)) :
              delete_calls[FilesToClean(uploaded_files_map)[i]] >= 1

\* C32: in the cleanup the local directory is removed before any remote
\* handle is deleted; a failure to remove the directory does not prevent the
\* remote deletions; a failure of one delete_file call (a handle that is gone
\* included) neither leaves the finally clause nor prevents the call on each
\* of the remaining handles.
C32_CleanupFailuresAreIsolated ==
    /\ [][DeleteLoopIteration]_vars
    /\ [](pc \in DeleteLoopPositions => cleanup_runs = 1)
    /\ []EveryHandleAttempted

\* The directory could not be removed, the deletion of the first of two
\* handles raised, and the second handle was deleted all the same.
C32_Witness ==
    /\ pc = "done"
    /\ temp_image_dir
    /\ Len(FilesToClean(uploaded_files_map)) = 2
    /\ FilesToClean(uploaded_files_map)[1] \in cleanup_warnings
    /\ FilesToClean(uploaded_files_map)[2] \notin cleanup_warnings
    /\ delete_calls[FilesToClean(uploaded_files_map)[2]] = 1

(* ------------------------------ the patcher --------------------------- *)

\* The page ids of a file: the ids of its page articles that have one.
IdsOf(soup) ==
    {soup.articles[i].id : i \in 1..Len(soup.articles)} \ {<<>>}

\* The html of the last article of the file that carries the id.
LastWithId(soup, id) ==
    LET i == CHOOSE i \in 1..Len(soup.articles) :
                 /\ soup.articles[i].id = id
                 /\ \A j \in (i + 1)..Len(soup.articles) : soup.articles[j].id # id
    IN [hr |-> soup.articles[i].hr, content |-> soup.articles[i].content]

\* The page number an id ends in.
PageNumber(id) ==
    LET dash == CHOOSE i \in 0..Len(id) :
                    /\ i > 0 => id[i] = "-"
                    /\ \A j \in (i + 1)..Len(id) : id[j] # "-"
    IN DecimalValue(SubSeq(id, dash + 1, Len(id)))

C35_ThreadFewerPagesMeansPartialName ==
    \A i \in 1..Len(completion_calls) :
        (/\ completion_calls[i].success
         /\ merged_html # <<>>
         /\ Len(GeneratedContentList(temp_generated_html_results))
               < Len(selected_pages_0_indexed.list))
            => completion_calls[i].message = "base_parcial_accessible.html"

(* ---------------------- the row of a finished task -------------------- *)

\* C36: in the front end that keeps its tasks in the database, the row of a
\* task whose run of the pipeline has ended has is_complete = 1 and a
\* success value, for a failed or cancelled run as for a successful one.
C36_EndedRunIsStoredAsComplete ==
    pc = "done" => (TaskRow.is_complete = 1 /\ TaskRow.success # "NULL")

(* ------------------------ the in-memory front end --------------------- *)

\* C37: an answer of /status that says is_complete = true carries a success
\* value, and one that says success = true carries an output_filename,
\* however the handler interleaves with completion_callback.
C37_StatusNeverHalfWritten ==
    (status_response.code = 200 /\ "sent" \in DOMAIN status_response) =>
        /\ status_response.is_complete => status_response.success # "None"
        /\ status_response.success = "True" => status_response.output_filename # "None"

\* A step of the /cancel handler.
CancelStep == cancel_request' # cancel_request \/ cancel_response' # cancel_response

\* What /cancel may do in one step: nothing to TASKS when it answers 404 or
\* finds the task complete, and for a task it found incomplete only set the
\* event and the status text of that task.
CancelChangesOnlyItsTask ==
    CancelStep =>
        /\ cancel_request.at = "idle" => TASKS' = TASKS
        /\ (cancel_request.at = "idle" /\ cancel_request'.at = "line 147")
              => (TASKS[cancel_request'.task_id].known
                  /\ ~TASKS[cancel_request'.task_id].is_complete)
        /\ (cancel_request.at = "idle" /\ cancel_request'.at = "idle")
              => \/ (cancel_response'.code = 404 /\ ~TASKS[cancel_response'.task_id].known)
                 \/ (cancel_response'.code = 200 /\ TASKS[cancel_response'.task_id].is_complete)
        /\ cancel_request.at = "line 147"
              => TASKS' = [TASKS EXCEPT ![cancel_request.task_id].cancel_event = TRUE]
        /\ \A t \in TaskIds : t # cancel_request.task_id => TASKS'[t] = TASKS[t]

\* A set event stays set and a complete task stays complete.
NeverUndone ==
    \A t \in TaskIds :
        /\ TASKS[t].cancel_event => TASKS'[t].cancel_event
        /\ TASKS[t].is_complete => TASKS'[t].is_complete

C38_AtMostOneRunAtATime ==
    Cardinality({t \in ThreadIds : thread_at[t] \in {"try", "finally"}}) <= 1

(* ---------------------------- the log of a task ------------------------ *)

\* The messages of thread t in the stored log, in the order of the log.
StoredFrom(t) ==
    SelectSeq(json_loads(tasks_row.log), LAMBDA entry : entry.thread = t)

\* The calls of thread t whose UPDATE is committed.
Committed(t) ==
    log_call[t].returned + (IF log_call[t].at = "line 74" THEN 1 ELSE 0)

\* The committed calls of the threads 1..n.
RECURSIVE CommittedUpTo(_)
CommittedUpTo(n) == IF n = 0 THEN 0 ELSE Committed(n) + CommittedUpTo(n - 1)

\* C39: no append_to_log call of concurrent threads is lost: the stored log
\* holds the entries it had before and one entry for each committed call,
\* and the messages of one thread are in the order the thread sent them.
C39_NoLogMessageIsLost ==
    /\ \A t \in LogThreads :
          StoredFrom(t) = [i \in 1..Committed(t) |-> [thread |-> t, message |-> i]]
    /\ StoredFrom(0) = <<[thread |-> 0, message |-> 1]>>
    /\ Len(json_loads(tasks_row.log)) = 1 + CommittedUpTo(MaxLogThreads)

\* Both threads have sent all their messages, the second thread's first
\* message being stored between the two messages of the first thread.
C39_Witness ==
    /\ \A t \in LogThreads : log_call[t].returned >= 2
    /\ json_loads(tasks_row.log)[2].thread = 1
    /\ json_loads(tasks_row.log)[3].thread = 2
    /\ json_loads(tasks_row.log)[4].thread = 1

====
